---- MODULE Spec2Model ----
(***************************************************************************)
(* Verification model of the agent execution kernel of tetsuo.26:          *)
(* persistent task queue, approval broker, worker tool loops, runtime      *)
(* settings guard and cost tracker.  Every definition is translated from   *)
(* the TypeScript source named in MODEL_MAP.json.                          *)
(*                                                                         *)
(* Node.js runs one callback at a time: an action of this model is the     *)
(* code a function executes between two awaits.  A function that awaits    *)
(* is therefore several actions joined by a program counter.               *)
(***************************************************************************)
EXTENDS Integers, Sequences, FiniteSets, TLC

VARIABLES
  \* ---- task queue (src/src/tasks/queue.ts) ----
  tasks,        \* in-memory index: task id -> status, "none" when absent
  taskDisk,     \* tasks/<id>.json: status, "none" (no file) or "corrupt"
  taskDisk0,    \* the documents as they were when the process started
  tqPc,         \* position of initTaskQueue: "load", "mark", "done"
  tqNext,       \* next file (load) or next interrupted task (mark)
  interrupted,  \* the tasks initTaskQueue found running, in index order
  \* ---- approval broker (src/src/tasks/costs.ts, second half) ----
  approvals,    \* approvals map: id -> [status, resolvedAt, resolvedBy]
  approvalDisk, \* approvals/<id>.json as last written, "none" when absent
  waiters,      \* keys of the waiters map
  timer,        \* expiry timer of a request: none, armed, fired, cleared
  future,       \* promise returned by requestApproval: none, waiting, true, false
  resolveCalls, \* how often the promise's resolve function was called
  reqPc,        \* requestApproval(id): idle, persist, returned
  rsvPc,        \* resolveApproval(id): idle, persist, done
  rsvDecision,  \* the decision argument of the resolveApproval call in flight
  tmrPc,        \* timer callback of id: idle, persist, done
  nullReturned, \* ids for which some resolveApproval call returned null
  earlyResolved, \* ids resolved before requestApproval had returned its promise
  clock,        \* logical time read by new Date()
  \* ---- cost tracker (src/src/tasks/costs.ts, first half) ----
  today,        \* the calendar date new Date() yields, as a day number
  todayUsage,   \* the DailyUsage accumulator of the process
  costFile,     \* costs.json: a sequence of DailyUsage records
  costConfig,   \* [dailyBudget, hardStop]; money is in thousandths of $
  tuCall,       \* trackUsage calls: call id -> its locals and position
  counted,      \* date -> the calls trackUsage has added for that date
  \* ---- runtime settings (src/unnamed/part_004) ----
  current,      \* the RuntimeSettings singleton
  settingsFile, \* settings.json as last saved
  lastUpdate,   \* the last updateSettings call: arguments, state before, result
  \* ---- workers (src/src/gateway/agent.ts, src/unnamed/part_008) ----
  worker,       \* the worker function in flight: its locals and position
  reply,        \* what the last worker function returned
  turns,        \* worker functions started so far
  executeToolLog, \* the calls the function in flight passed to executeTool
  callLLMLog,   \* its callLLM calls, with canMakeCall() at the time of each
  actedLog,     \* its responses with usage that it went on to use
  \* ---- task store (src/src/tasks/queue.ts), with all of a task's fields ----
  taskMap,      \* the tasks map with whole records: id -> Task
  mapOrder,     \* the ids in the iteration order of the map
  taskFiles,    \* tasks/<id>.json as last written: id -> document
  persisting,   \* persistTask calls in flight: slot -> [pc, task, doc]
  now,          \* the time new Date() yields to the next mutator call
  \* ---- orchestrator (src/unnamed/part_008: orchestrate, executePlan) ----
  plan,         \* plan.subtasks: the parallelGroup label of each subtask
  parent,       \* the parent task: [status, progress, error]
  orch,         \* orchestrate(task): its position and the group it awaits
  subs,         \* per subtask: the worker's position, st.status, child task
  \* ---- startup of the approval queue (costs.ts: initApprovalQueue) ----
  aqPc,         \* position of initApprovalQueue: "read", "persist", "done"
  aqNext,       \* the file the loop is at
  approvalDisk0, \* approvals/<id>.json as they were when the process started
  approvalFiles, \* approvals/<id>.json during and after the load
  loadedApprovals, \* the approvals map as initApprovalQueue fills it
  loadClock,    \* what new Date() returns during the load
  \* ---- tool registry (src/unnamed/part_003, part_005) ----
  toolCall,     \* the executeTool call in flight and where it stands
  sandboxEnabled, \* agentConfig.sandboxEnabled
  effects,      \* what the handlers did: processes spawned, requests sent
  auditStream,  \* the audit log handle: "open" or "null"
  auditLog,     \* the entries written to the audit log
  toolEvents,   \* the tool_called and tool_result events emitted
  toolResult,   \* what executeTool returned or raised
  \* ---- security guard (src/unnamed/part_005) ----
  pathCall,     \* the safePath call: its argument and whether it was made
  pathResult,   \* what safePath returned or threw
  urlCall,      \* the validateURL call: its argument, position, DNS answer
  urlResult,    \* what validateURL returned or threw
  buckets,      \* the rate limiter's Map: key -> bucket
  rateNow,      \* Date.now() in milliseconds
  rateConfig,   \* maxTokens and refillPerSecond the callers pass
  rateCalls,    \* the checkRateLimit calls made: key, instant, result
  routeCall,    \* the routeSubtask call: llmConfig, subtask, budget
  routeResult,  \* the ModelRoute routeSubtask returned
  \* ---- session loop with its thread, heartbeat and triggers ----
  turn,         \* the turn in flight: its mode, position, thread, counts
  threadFile,   \* the conversation file: message count, summary, tail,
                \* and how many of its messages have the system role
  pendingApproval, \* whether the user has an approval pending
  checklist,    \* HEARTBEAT.md as the last tick read it
  published,    \* the heartbeat_tick events emitted, each with its tasks
  outbox,       \* the sendMessage calls of handleHeartbeat/handleTrigger
  turnReply,    \* what the turn's function returned
  \* ---- event triggers (src/src/types.ts, the trigger engine) ----
  triggers,     \* the keys of the triggers map, in insertion order
  triggerObjs,  \* the TriggerDefinition objects by id, also after a delete
  nextTrigger,  \* the id the next createTrigger draws
  webhookServer, \* whether the shared server exists
  webhookHandlers, \* path -> id of the trigger registered for it, 0 for none
  fileWatchers, \* ids with an open fs.watch watcher
  cronJobs,     \* the keys of the cronJobs map
  intervals,    \* ids whose setInterval poll is running
  firing,       \* the trigger whose fireTrigger call is in flight, 0 for none
  emitted,      \* trigger_fired events emitted, per trigger
  request,      \* the webhook request in flight or last answered
  \* ---- audit log files (src/unnamed/part_005) ----
  logDate,      \* the calendar date new Date() yields to audit
  logHandle,    \* the date in the name of the file auditStream has open
  logFiles,     \* logs/audit-<date>.jsonl: date -> its lines
  logEntry,     \* the entry whose write is awaited
  logWritten,   \* audit calls settled so far
  \* ---- thread store (src/src/memory/store.ts) ----
  thr,          \* the ConversationThread object: messages and summary
  thrFile,      \* the conversation file as last written
  thrCall,      \* the saveThread call: position, the thread it was given
  thrAppends,   \* messages pushed between the saves
  \* ---- deleteTask (src/src/tasks/queue.ts) ----
  removed,      \* the ids deleteTask has deleted from the tasks map
  unlinking,    \* the ids whose fs.unlink is awaited
  deleteReturned, \* the ids for which deleteTask has returned true
  \* ---- chat commands on approvals (src/src/gateway/agent.ts) ----
  userApprovals, \* the approvals map by uuid, each request with its user
  requestClock, \* the creation time the next request gets
  chatCommand   \* the /approve or /reject command handled last

taskVars == <<tasks, taskDisk, taskDisk0, tqPc, tqNext, interrupted>>

apprVars == <<approvals, approvalDisk, waiters, timer, future, resolveCalls,
              reqPc, rsvPc, rsvDecision, tmrPc, nullReturned, earlyResolved,
              clock>>

costVars == <<today, todayUsage, costFile, costConfig, tuCall, counted>>

setVars == <<current, settingsFile, lastUpdate>>

workerVars == <<worker, reply, turns, executeToolLog, callLLMLog, actedLog>>

storeVars == <<taskMap, mapOrder, taskFiles, persisting, now>>

\* The kernel of the first five sections, and what was added to it
coreVars == <<taskVars, apprVars, costVars, setVars, workerVars>>

orchVars == <<plan, parent, orch, subs>>

loadVars == <<aqPc, aqNext, approvalDisk0, approvalFiles, loadedApprovals,
              loadClock>>

toolVars == <<toolCall, sandboxEnabled, effects, auditStream, auditLog,
              toolEvents, toolResult>>

pathVars == <<pathCall, pathResult>>

\* The sections of the guard, the router and the session loop
urlVars == <<urlCall, urlResult>>

rateVars == <<buckets, rateNow, rateConfig, rateCalls>>

routeVars == <<routeCall, routeResult>>

sessVars == <<turn, threadFile, pendingApproval, checklist, published, outbox, turnReply>>

trigVars == <<triggers, triggerObjs, nextTrigger, webhookServer,
              webhookHandlers, fileWatchers, cronJobs, intervals, firing,
              emitted, request>>

\* The sections of the trigger engine, the audit log and the thread store
logVars == <<logDate, logHandle, logFiles, logEntry, logWritten>>

thrVars == <<thr, thrFile, thrCall, thrAppends>>

delVars == <<removed, unlinking, deleteReturned>>

chatVars == <<userApprovals, requestClock, chatCommand>>

extVars == <<trigVars, logVars, thrVars, delVars, chatVars>>

auxVars == <<pathVars, urlVars, rateVars, routeVars, sessVars, extVars>>

\* Everything but the triggers, the audit log, the thread store and
\* deleteTask
baseVars == <<coreVars, storeVars, orchVars, loadVars, toolVars, pathVars,
              urlVars, rateVars, routeVars, sessVars, chatVars>>

\* Everything but the chat commands on approvals
besideChat == <<coreVars, storeVars, orchVars, loadVars, toolVars, pathVars,
                urlVars, rateVars, routeVars, sessVars, trigVars, logVars,
                thrVars, delVars>>

\* What deleteTask and the mutators of the task store leave alone
besideStore == <<coreVars, orchVars, loadVars, toolVars, pathVars, urlVars,
                 rateVars, routeVars, sessVars, trigVars, logVars, thrVars,
                 chatVars>>

restVars == <<storeVars, orchVars, loadVars, toolVars, auxVars>>

vars == <<coreVars, restVars>>

\* ------------------------------------------------------------------
\* Bounds
\* ------------------------------------------------------------------
MaxTasks == 3
MaxApprovals == 1
MaxCalls == 2
MaxDateChanges == 1
MaxToolCallsPerMessage == 2
MaxToolCalls == 2
MaxTurns == 1
MaxStoreTasks == 2
MaxWrites == 2
MaxNow == 4
MaxSteps == 1
MaxNotes == 1
MaxSubtasks == 2
MaxFiles == 2
MaxLoadClock == 3
MaxToolRuns == 2
MaxSegments == 3
MaxRecords == 2
MaxCap == 2
MaxRateCalls == 4
MaxRateTicks == 3
MaxSessTools == 2
MaxLines == 2

\* ------------------------------------------------------------------
\* Task queue: startup recovery
\* ------------------------------------------------------------------
TaskIds == 1..MaxTasks

TaskStatus ==
  {"pending", "running", "waiting_approval", "paused",
   "completed", "failed", "cancelled"}

\* The loop of initTaskQueue over readdir: one file is read and parsed
\* per step; a file that does not parse is skipped.
ParsedTask(id) ==
  IF taskDisk[id] \in TaskStatus THEN taskDisk[id] ELSE "none"

\* Array.from(tasks.values()).filter(t => t.status === 'running')
RECURSIVE RunningFrom(_, _)
RunningFrom(idx, id) ==
  IF id > MaxTasks THEN <<>>
  ELSE IF idx[id] = "running" THEN <<id>> \o RunningFrom(idx, id + 1)
  ELSE RunningFrom(idx, id + 1)

InitTaskQueueLoad ==
  /\ tqPc = "load"
  /\ IF tqNext <= MaxTasks
     THEN /\ tasks' = IF taskDisk[tqNext] = "none" THEN tasks
                      ELSE [tasks EXCEPT ![tqNext] = ParsedTask(tqNext)]
          /\ tqNext' = tqNext + 1
          /\ UNCHANGED <<tqPc, interrupted>>
     ELSE /\ interrupted' = RunningFrom(tasks, 1)
          /\ tqPc' = "mark"
          /\ tqNext' = 1
          /\ UNCHANGED tasks
  /\ UNCHANGED <<taskDisk, taskDisk0>>

PersistTaskSkipped(disk, idx, id) == disk

\* persistTask: the whole document is rewritten from the in-memory task
PersistTask(disk, idx, id) == [disk EXCEPT ![id] = idx[id]]

\* t.status = 'paused'; await persistTask(t)
MarkPaused(idx, id) == [idx EXCEPT ![id] = "paused"]

InitTaskQueueMark ==
  /\ tqPc = "mark"
  /\ IF tqNext <= Len(interrupted)
     THEN LET id == interrupted[tqNext]
              idx == MarkPaused(tasks, id)
          IN /\ tasks' = idx
             /\ taskDisk' = PersistTask(taskDisk, idx, id)
             /\ tqNext' = tqNext + 1
             /\ UNCHANGED tqPc
     ELSE /\ tqPc' = "done"
          /\ UNCHANGED <<tasks, taskDisk, tqNext>>
  /\ UNCHANGED <<taskDisk0, interrupted>>

\* ------------------------------------------------------------------
\* Approval broker
\* ------------------------------------------------------------------
ApprovalIds == 1..MaxApprovals

Resolvers == {"admin", "agent", "user"}

NoApproval == [status |-> "none", resolvedAt |-> 0, resolvedBy |-> "unset"]

Terminal == {"approved", "rejected", "expired"}

ApprovalStart ==
  /\ approvals = [id \in ApprovalIds |-> NoApproval]
  /\ approvalDisk = [id \in ApprovalIds |-> "none"]
  /\ waiters = {}
  /\ timer = [id \in ApprovalIds |-> "none"]
  /\ future = [id \in ApprovalIds |-> "none"]
  /\ resolveCalls = [id \in ApprovalIds |-> 0]
  /\ reqPc = [id \in ApprovalIds |-> "idle"]
  /\ rsvPc = [id \in ApprovalIds |-> "idle"]
  /\ rsvDecision = [id \in ApprovalIds |-> "unset"]
  /\ tmrPc = [id \in ApprovalIds |-> "idle"]
  /\ nullReturned = {}
  /\ earlyResolved = {}
  /\ clock = 1

\* persistApproval: the request is serialised and written when the
\* awaited write completes, that is in the step that resumes the caller.
PersistApproval(disk, id) == [disk EXCEPT ![id] = approvals[id]]

\* The resolve function of a promise settles it the first time only.
Settle(fut, id, value) ==
  IF fut[id] = "waiting"
  THEN [fut EXCEPT ![id] = IF value THEN "true" ELSE "false"]
  ELSE fut

\* requestApproval up to its await: the request is built with a fresh
\* uuid, put in the map as pending, and persistApproval is awaited.
RequestApprovalBegin(id) ==
  /\ approvals[id].status = "none"
  /\ reqPc[id] = "idle"
  /\ approvals' = [approvals EXCEPT ![id] =
                     [status |-> "pending", resolvedAt |-> 0,
                      resolvedBy |-> "unset"]]
  /\ reqPc' = [reqPc EXCEPT ![id] = "persist"]
  /\ UNCHANGED <<approvalDisk, waiters, timer, future, resolveCalls,
                 rsvPc, rsvDecision, tmrPc, nullReturned, earlyResolved,
                 clock>>

\* requestApproval after persistApproval: the event is emitted, the
\* promise is created, the timer armed and the waiter registered.
RequestApprovalResume(id) ==
  /\ reqPc[id] = "persist"
  /\ approvalDisk' = PersistApproval(approvalDisk, id)
  /\ future' = [future EXCEPT ![id] = "waiting"]
  /\ timer' = [timer EXCEPT ![id] = "armed"]
  /\ waiters' = waiters \cup {id}
  /\ reqPc' = [reqPc EXCEPT ![id] = "returned"]
  /\ UNCHANGED <<approvals, resolveCalls, rsvPc, rsvDecision, tmrPc,
                 nullReturned, earlyResolved, clock>>

ExpiryGuardMissing(id) == TRUE

\* The guard of the timer callback: if (req.status === 'pending')
ExpiryGuard(id) == approvals[id].status = "pending"

\* The setTimeout callback up to its await.  The timer fires once, 30
\* minutes after it was armed, unless clearTimeout was called before.
TimerFire(id) ==
  /\ timer[id] = "armed"
  /\ timer' = [timer EXCEPT ![id] = "fired"]
  /\ IF ExpiryGuard(id)
     THEN /\ approvals' = [approvals EXCEPT ![id].status = "expired",
                                            ![id].resolvedAt = clock]
          /\ clock' = clock + 1
          /\ tmrPc' = [tmrPc EXCEPT ![id] = "persist"]
          /\ UNCHANGED waiters
     ELSE /\ waiters' = waiters \ {id}
          /\ tmrPc' = [tmrPc EXCEPT ![id] = "done"]
          /\ UNCHANGED <<approvals, clock>>
  /\ UNCHANGED <<approvalDisk, future, resolveCalls, reqPc, rsvPc,
                 rsvDecision, nullReturned, earlyResolved>>

\* The timer callback after persistApproval: resolve(false), then
\* waiters.delete(req.id).
TimerResume(id) ==
  /\ tmrPc[id] = "persist"
  /\ approvalDisk' = PersistApproval(approvalDisk, id)
  /\ future' = Settle(future, id, FALSE)
  /\ resolveCalls' = [resolveCalls EXCEPT ![id] = @ + 1]
  /\ waiters' = waiters \ {id}
  /\ tmrPc' = [tmrPc EXCEPT ![id] = "done"]
  /\ UNCHANGED <<approvals, timer, reqPc, rsvPc, rsvDecision,
                 nullReturned, earlyResolved, clock>>

\* The guard of resolveApproval: if (!req || req.status !== 'pending')
\* return null
ResolveGuard(id) == approvals[id].status = "pending"

\* resolveApproval up to its await, called from the chat command, the
\* dashboard or the resolve_approval tool.
ResolveApprovalBegin(id, decision, by) ==
  /\ IF ResolveGuard(id)
     THEN /\ approvals' = [approvals EXCEPT ![id].status = decision,
                                            ![id].resolvedAt = clock,
                                            ![id].resolvedBy = by]
          /\ clock' = clock + 1
          /\ rsvPc' = [rsvPc EXCEPT ![id] = "persist"]
          /\ rsvDecision' = [rsvDecision EXCEPT ![id] = decision]
          /\ earlyResolved' = IF reqPc[id] = "returned" THEN earlyResolved
                              ELSE earlyResolved \cup {id}
          /\ UNCHANGED nullReturned
     ELSE /\ nullReturned' = nullReturned \cup {id}
          /\ UNCHANGED <<approvals, clock, rsvPc, rsvDecision, earlyResolved>>
  /\ UNCHANGED <<approvalDisk, waiters, timer, future, resolveCalls,
                 reqPc, tmrPc>>

\* resolveApproval after persistApproval: wake the waiter if there is
\* one, emit the event, return the request.
ResolveApprovalResume(id) ==
  /\ rsvPc[id] = "persist"
  /\ approvalDisk' = PersistApproval(approvalDisk, id)
  /\ IF id \in waiters
     THEN /\ timer' = [timer EXCEPT ![id] =
                         IF @ = "armed" THEN "cleared" ELSE @]
          /\ future' = Settle(future, id, rsvDecision[id] = "approved")
          /\ resolveCalls' = [resolveCalls EXCEPT ![id] = @ + 1]
          /\ waiters' = waiters \ {id}
     ELSE UNCHANGED <<timer, future, resolveCalls, waiters>>
  /\ rsvPc' = [rsvPc EXCEPT ![id] = "done"]
  /\ UNCHANGED <<approvals, reqPc, rsvDecision, tmrPc, nullReturned,
                 earlyResolved, clock>>

\* ------------------------------------------------------------------
\* Cost tracker
\* ------------------------------------------------------------------
CostPer1kIn == 3

CostPer1kOut == 15

KeepDays == 90

StartDate == 100

Dates == StartDate..(StartDate + MaxDateChanges)

Models == {"m1", "m2"}

\* (inputTokens, outputTokens) of a call, in thousands of tokens
TokenPairs == {<<1, 2>>, <<2, 1>>}

CallIds == 1..MaxCalls

NoModelUse == [input |-> 0, output |-> 0, cost |-> 0, calls |-> 0]

EmptyDay(date) ==
  [date |-> date, inputTokens |-> 0, outputTokens |-> 0,
   estimatedCost |-> 0, callCount |-> 0,
   byModel |-> [m \in Models |-> NoModelUse]]

\* callCost = (inputTokens / 1000) * costPer1kIn +
\*            (outputTokens / 1000) * costPer1kOut
CallCost(inTok, outTok) == inTok * CostPer1kIn + outTok * CostPer1kOut

\* The synchronous middle of trackUsage: the totals and the per-model
\* entry are increased by the call.
AddCall(u, model, inTok, outTok) ==
  [u EXCEPT !.inputTokens = @ + inTok,
            !.outputTokens = @ + outTok,
            !.estimatedCost = @ + CallCost(inTok, outTok),
            !.callCount = @ + 1,
            !.byModel[model] =
               [input |-> @.input + inTok, output |-> @.output + outTok,
                cost |-> @.cost + CallCost(inTok, outTok),
                calls |-> @.calls + 1]]

\* canMakeCall
CanMakeCall ==
  IF ~costConfig.hardStop \/ costConfig.dailyBudget <= 0 THEN TRUE
  ELSE todayUsage.estimatedCost < costConfig.dailyBudget

\* all.findIndex(d => d.date === todayUsage.date): 0 when there is none
FindIndex(all, date) ==
  IF \E i \in 1..Len(all) : all[i].date = date
  THEN CHOOSE i \in 1..Len(all) :
         /\ all[i].date = date
         /\ \A j \in 1..(i - 1) : all[j].date # date
  ELSE 0

\* all.slice(-90)
KeepLast(all, n) ==
  IF Len(all) <= n THEN all ELSE SubSeq(all, Len(all) - n + 1, Len(all))

\* saveUsage after its read: replace or append today's record, keep the
\* last 90 days; the result is what writeFile is given.
MergeUsage(all, u) ==
  LET idx == FindIndex(all, u.date)
      merged == IF idx > 0 THEN [all EXCEPT ![idx] = u] ELSE Append(all, u)
  IN KeepLast(merged, KeepDays)

IdleCall ==
  [pc |-> "idle", model |-> "m1", inTok |-> 0, outTok |-> 0, content |-> <<>>]

WriteInFlight == \E c \in CallIds : tuCall[c].pc \in {"roll_write", "save_write"}

\* What readFile + JSON.parse of saveUsage yield: the file, or (the catch
\* branch) nothing when a concurrent writeFile has truncated it.
ReadResults == {costFile} \cup (IF WriteInFlight THEN {<<>>} ELSE {})

Count(date, inTok, outTok) ==
  [counted EXCEPT ![date] = [calls |-> @.calls + 1, inTok |-> @.inTok + inTok,
                             outTok |-> @.outTok + outTok]]

\* trackUsage up to its first await.  On a new date the old record is
\* saved first (await saveUsage()); otherwise the call is added and the
\* record saved.
TrackUsageBegin(c, model, inTok, outTok) ==
  /\ tuCall[c].pc = "idle"
  /\ IF todayUsage.date # today
     THEN /\ tuCall' = [tuCall EXCEPT ![c] =
                 [pc |-> "roll_read", model |-> model, inTok |-> inTok,
                  outTok |-> outTok, content |-> <<>>]]
          /\ UNCHANGED <<todayUsage, counted>>
     ELSE /\ todayUsage' = AddCall(todayUsage, model, inTok, outTok)
          /\ counted' = Count(today, inTok, outTok)
          /\ tuCall' = [tuCall EXCEPT ![c] =
                 [pc |-> "save_read", model |-> model, inTok |-> inTok,
                  outTok |-> outTok, content |-> <<>>]]
  /\ UNCHANGED <<today, costFile, costConfig>>

\* saveUsage resumes after readFile and hands the merged array to
\* writeFile.
SaveUsageRead(c) ==
  /\ tuCall[c].pc \in {"roll_read", "save_read"}
  /\ \E all \in ReadResults :
       tuCall' = [tuCall EXCEPT
          ![c].content = MergeUsage(all, todayUsage),
          ![c].pc = IF tuCall[c].pc = "roll_read" THEN "roll_write"
                    ELSE "save_write"]
  /\ UNCHANGED <<today, todayUsage, costFile, costConfig, counted>>

\* The accumulator the rollover branch installs: todayUsage = emptyDay()
RolloverReset(u, date) == EmptyDay(date)

\* writeFile completes and trackUsage resumes: after the rollover save
\* with todayUsage = emptyDay() and the addition of the call, after the
\* final save with the budget checks and the return.
SaveUsageWritten(c) ==
  /\ tuCall[c].pc \in {"roll_write", "save_write"}
  /\ costFile' = tuCall[c].content
  /\ IF tuCall[c].pc = "roll_write"
     THEN /\ todayUsage' = AddCall(RolloverReset(todayUsage, today),
                                   tuCall[c].model, tuCall[c].inTok,
                                   tuCall[c].outTok)
          /\ counted' = Count(today, tuCall[c].inTok, tuCall[c].outTok)
          /\ tuCall' = [tuCall EXCEPT ![c].pc = "save_read",
                                      ![c].content = <<>>]
     ELSE /\ tuCall' = [tuCall EXCEPT ![c].pc = "done", ![c].content = <<>>]
          /\ UNCHANGED <<todayUsage, counted>>
  /\ UNCHANGED <<today, costConfig>>

\* Midnight passes.
DateChange ==
  /\ today < StartDate + MaxDateChanges
  /\ today' = today + 1
  /\ UNCHANGED <<todayUsage, costFile, costConfig, tuCall, counted>>

\* A past day as costs.json holds it
PastDay(date) == AddCall(EmptyDay(date), "m1", 1, 1)

\* costs.json with the n days before StartDate
History(n) == [i \in 1..n |-> PastDay(StartDate - n - 1 + i)]

NoBudget == [dailyBudget |-> 0, hardStop |-> FALSE]

\* After initCostTracker on StartDate: no record of that date is in the
\* file, so the accumulator is an empty day.
CostStart ==
  /\ today = StartDate
  /\ \E n \in {0, 1, KeepDays - 1, KeepDays} : costFile = History(n)
  /\ todayUsage = EmptyDay(StartDate)
  /\ costConfig = NoBudget
  /\ tuCall = [c \in CallIds |-> IdleCall]
  /\ counted = [d \in Dates |-> [calls |-> 0, inTok |-> 0, outTok |-> 0]]

CostRest ==
  /\ today = StartDate
  /\ costFile = <<>>
  /\ todayUsage = EmptyDay(StartDate)
  /\ costConfig = NoBudget
  /\ tuCall = [c \in CallIds |-> IdleCall]
  /\ counted = [d \in Dates |-> [calls |-> 0, inTok |-> 0, outTok |-> 0]]

\* ------------------------------------------------------------------
\* Runtime settings.  The model keeps three top-level settings and the
\* nested toolPermissions object with two of its switches.
\* ------------------------------------------------------------------
\* Setting values are written as JSON writes them: "true", "false", a
\* string.  "absent" marks a key the patch does not have.
Defaults ==
  [sandboxEnabled |-> "true", autonomyLevel |-> "medium",
   agentName |-> "Agent",
   toolPermissions |-> [shell |-> "true", email |-> "false"]]

Switch == {"absent", "true", "false"}

Patches ==
  [sandboxEnabled : Switch,
   autonomyLevel : {"absent", "high"},
   agentName : {"absent", "Bot"},
   toolPermissions : [shell : {"absent"}, email : Switch]]

\* flattenForCheck: the leaves of the patch, a nested key joined to its
\* parent with a dot; here as pairs <<key, value>>.
FlattenForCheck(patch) ==
  {kv \in {<<"sandboxEnabled", patch.sandboxEnabled>>,
           <<"autonomyLevel", patch.autonomyLevel>>,
           <<"agentName", patch.agentName>>,
           <<"toolPermissions.shell", patch.toolPermissions.shell>>,
           <<"toolPermissions.email", patch.toolPermissions.email>>} :
     kv[2] # "absent"}

\* DANGEROUS_KEYS, the entries over the modelled settings; the danger
\* key is `${key}:${value}`, here the pair.
DangerousKeys ==
  {<<"sandboxEnabled", "false">>, <<"toolPermissions.email", "true">>,
   <<"autonomyLevel", "high">>}

\* generateConfirmToken: a digest of the danger key and the time bucket,
\* modelled as the two together (tokens are equal iff both agree).
GenerateConfirmToken(dangerKey) == <<dangerKey[1], dangerKey[2], "now">>

\* The tokens a caller may send: none, or one obtained from
\* /api/settings/confirm in this time bucket or in an earlier one.
ConfirmTokens ==
  {<<"none", "none", "none">>} \cup
  {<<d[1], d[2], b>> : d \in DangerousKeys, b \in {"now", "earlier"}}

\* The loop of updateSettings: the leaves that need a confirmation the
\* caller did not give ...
RequiresConfirm(patch, token) ==
  {kv \in FlattenForCheck(patch) :
     kv \in DangerousKeys /\ token # GenerateConfirmToken(kv)}

\* ... and the keys of the others
Applied(patch, token) ==
  {kv[1] : kv \in FlattenForCheck(patch) \ RequiresConfirm(patch, token)}

\* deepMerge on a nested object of the settings
DeepMergeNested(target, source) ==
  [n \in DOMAIN target |->
     IF source[n] # "absent" THEN source[n] ELSE target[n]]

\* deepMerge(target, source): a source object is merged into a target
\* object recursively, any other source value replaces the target's.
DeepMerge(target, source) ==
  [k \in DOMAIN target |->
     IF k = "toolPermissions" THEN DeepMergeNested(target[k], source[k])
     ELSE IF source[k] # "absent" THEN source[k]
     ELSE target[k]]

\* What updateSettings merges into the settings: the patch as given
MergedPatch(patch, token) == patch

\* updateSettings(patch, confirmToken)
UpdateSettings(patch, token) ==
  LET requiresConfirm == RequiresConfirm(patch, token)
      applied == Applied(patch, token)
  IN IF requiresConfirm # {} /\ applied = {}
     THEN /\ lastUpdate' = [patch |-> patch, token |-> token,
                            before |-> current, applied |-> applied,
                            requiresConfirm |-> requiresConfirm]
          /\ UNCHANGED <<current, settingsFile>>
     ELSE /\ current' = DeepMerge(current, MergedPatch(patch, token))
          /\ settingsFile' = current'
          /\ lastUpdate' =
               [patch |-> patch, token |-> token, before |-> current,
                applied |-> {kv[1] : kv \in FlattenForCheck(patch)},
                requiresConfirm |-> requiresConfirm]

NoPatch ==
  [sandboxEnabled |-> "absent", autonomyLevel |-> "absent",
   agentName |-> "absent",
   toolPermissions |-> [shell |-> "absent", email |-> "absent"]]

NoUpdate ==
  [patch |-> NoPatch, token |-> <<"none", "none", "none">>, before |-> Defaults,
   applied |-> {}, requiresConfirm |-> {}]

\* After loadSettings on a first run
SettingsStart ==
  /\ current = Defaults
  /\ settingsFile = Defaults
  /\ lastUpdate = NoUpdate

\* The value the settings hold for a flattened key
SettingOf(st, key) ==
  CASE key = "toolPermissions.email" -> st.toolPermissions.email
    [] key = "toolPermissions.shell" -> st.toolPermissions.shell
    [] OTHER -> st[key]

\* ------------------------------------------------------------------
\* Workers: processMessage, processHeartbeat and processTrigger of the
\* gateway agent, and planTask, executeSubtask and synthesizeResults of
\* the orchestrator.  One worker function runs at a time; of a thread
\* the model keeps the tool results of the current response.
\* ------------------------------------------------------------------
ToolNames == {"run_shell", "read_file"}

\* dangerousTools of shouldRequestApproval
DangerousTools ==
  {"run_shell", "write_file", "email_send", "mastodon_post",
   "reddit_post", "open_application", "clipboard_write"}

ShouldRequestApproval(tool, autonomy) ==
  IF autonomy = "high" THEN FALSE
  ELSE IF autonomy = "low" THEN TRUE
  ELSE tool \in DangerousTools

\* Math.min(settings.maxToolCallsPerMessage, 15)
SubtaskIterationCap == 15

Min(a, b) == IF a <= b THEN a ELSE b

\* response.toolCalls: the tool names, a call's id is its position
ToolCallLists == UNION {[1..n -> ToolNames] : n \in 0..MaxToolCalls}

\* response.usage of a response that carries one, and agentConfig.model
ResponseUsage == <<1, 2>>

AgentModel == "m1"

IdleWorker ==
  [path |-> "idle", pc |-> "idle", iterations |-> 0, toolCalls |-> <<>>,
   usage |-> FALSE, tcIndex |-> 0, messages |-> <<>>, autonomy |-> "unset",
   approval |-> 0, call |-> 0, task |-> 0, child |-> 0]

WorkerStart ==
  /\ worker = IdleWorker
  /\ reply = "none"
  /\ turns = 0
  /\ executeToolLog = {}
  /\ callLLMLog = {}
  /\ actedLog = {}

\* A callLLM(...) issued by the function `path`
LLMCall(path) == [path |-> path, canMakeCall |-> CanMakeCall]

CallLLM(path) == callLLMLog' = callLLMLog \cup {LLMCall(path)}

\* The logs are those of the worker function in flight: a function that
\* starts, starts them anew with the calls it issues at once.
NewLogs(calls) ==
  /\ callLLMLog' = calls
  /\ executeToolLog' = {}
  /\ actedLog' = {}

\* The caller goes on with the response it holds.  `tracked` says that
\* trackUsage has added the response's usage to today's DailyUsage.
ActOnResponse(path, tracked) ==
  actedLog' = IF worker.usage
              THEN actedLog \cup {[path |-> path, tracked |-> tracked]}
              ELSE actedLog

\* executeTool(tc) for the calls `idxs` of the response
ExecuteTool(path, idxs, autonomy, approval) ==
  executeToolLog' = executeToolLog \cup
    {[path |-> path, tool |-> worker.toolCalls[i], autonomy |-> autonomy,
      approval |-> approval] : i \in idxs}

ToolResult(i) == [tool_call_id |-> i, content |-> "result"]

\* 'Action was rejected by user. Find an alternative approach or report
\* what you have.'
RejectedResult(i) == [tool_call_id |-> i, content |-> "rejected"]

\* A worker function returns
Return(value) ==
  /\ worker' = IdleWorker
  /\ reply' = value

\* The response of a callLLM issued by processMessage, processHeartbeat
\* or processTrigger arrives: if (response.usage) await trackUsage(...).
\* `lists` are the tool-call lists the caller looks at.
TrackedResponse(path, lists) ==
  /\ worker.path = path
  /\ worker.pc = "llm"
  /\ \E toolCalls \in lists, usage \in BOOLEAN :
       IF usage
       THEN \E c \in CallIds :
              /\ \A j \in CallIds : j < c => tuCall[j].pc # "idle"
              /\ TrackUsageBegin(c, AgentModel, ResponseUsage[1],
                                 ResponseUsage[2])
              /\ worker' = [worker EXCEPT !.pc = "track", !.call = c,
                                          !.toolCalls = toolCalls,
                                          !.usage = TRUE,
                                          !.messages = <<>>]
       ELSE /\ worker' = [worker EXCEPT !.pc = "act",
                                        !.toolCalls = toolCalls,
                                        !.usage = FALSE,
                                        !.messages = <<>>]
            /\ UNCHANGED costVars
  /\ UNCHANGED <<reply, turns, executeToolLog, callLLMLog, actedLog,
                 taskVars, apprVars, setVars, restVars>>

\* trackUsage has returned, or there was no usage to track
ResponseReady ==
  \/ worker.pc = "act"
  \/ worker.pc = "track" /\ tuCall[worker.call].pc = "done"

\* The promise of the awaited trackUsage call is consumed
TrackUsageReturned ==
  /\ tuCall' = IF worker.pc = "track"
               THEN [tuCall EXCEPT ![worker.call] = IdleCall]
               ELSE tuCall
  /\ UNCHANGED <<today, todayUsage, costFile, costConfig, counted>>

\* processMessage up to its first await: a text that is no chat command
\* passes the budget check and the thread is loaded.
ProcessMessageBegin ==
  /\ worker.path = "idle"
  /\ turns < MaxTurns
  /\ turns' = turns + 1
  /\ IF ~CanMakeCall
     THEN Return("Daily LLM budget exceeded")
     ELSE /\ worker' = [IdleWorker EXCEPT !.path = "session", !.pc = "loop"]
          /\ reply' = "none"
  /\ NewLogs({})
  /\ UNCHANGED <<taskVars, apprVars, costVars, setVars, restVars>>

\* The head of the while loop of processMessage up to callLLM
ProcessMessageLoop ==
  /\ worker.path = "session"
  /\ worker.pc = "loop"
  /\ IF worker.iterations >= MaxToolCallsPerMessage
     THEN Return("maximum number of tool calls") /\ UNCHANGED callLLMLog
     ELSE IF ~CanMakeCall
     THEN Return("hit the daily budget limit") /\ UNCHANGED callLLMLog
     ELSE /\ worker' = [worker EXCEPT !.iterations = @ + 1, !.pc = "llm"]
          /\ CallLLM("session")
          /\ UNCHANGED reply
  /\ UNCHANGED <<turns, executeToolLog, actedLog,
                 taskVars, apprVars, costVars, setVars, restVars>>

ProcessMessageResponse == TrackedResponse("session", ToolCallLists)

\* processMessage with the response: without tool calls the content is
\* returned, otherwise every call is handed to executeTool
\* (Promise.all(response.toolCalls.map(tc => executeTool(tc)))).
ProcessMessageAct ==
  /\ worker.path = "session"
  /\ ResponseReady
  /\ TrackUsageReturned
  /\ ActOnResponse("session", worker.pc = "track")
  /\ IF worker.toolCalls = <<>>
     THEN Return("content") /\ UNCHANGED executeToolLog
     ELSE /\ ExecuteTool("session", DOMAIN worker.toolCalls,
                         current.autonomyLevel, 0)
          /\ worker' = [worker EXCEPT !.pc = "tools"]
          /\ UNCHANGED reply
  /\ UNCHANGED <<turns, callLLMLog, taskVars, apprVars, setVars, restVars>>

\* The tool results are pushed to the thread and the loop goes on
ProcessMessageTools ==
  /\ worker.path = "session"
  /\ worker.pc = "tools"
  /\ worker' = [worker EXCEPT
        !.messages = [i \in DOMAIN worker.toolCalls |-> ToolResult(i)],
        !.pc = "loop"]
  /\ UNCHANGED <<reply, turns, executeToolLog, callLLMLog, actedLog,
                 taskVars, apprVars, costVars, setVars, restVars>>

\* processHeartbeat and processTrigger up to callLLM
SingleCallBegin(path) ==
  /\ worker.path = "idle"
  /\ turns < MaxTurns
  /\ turns' = turns + 1
  /\ IF ~CanMakeCall
     THEN Return("null") /\ NewLogs({})
     ELSE /\ worker' = [IdleWorker EXCEPT !.path = path, !.pc = "llm"]
          /\ reply' = "none"
          /\ NewLogs({LLMCall(path)})
  /\ UNCHANGED <<taskVars, apprVars, costVars, setVars, restVars>>

\* ... and with the response: its content (or null) is returned
SingleCallAct(path, values) ==
  /\ worker.path = path
  /\ ResponseReady
  /\ TrackUsageReturned
  /\ ActOnResponse(path, worker.pc = "track")
  /\ \E value \in values : Return(value)
  /\ UNCHANGED <<turns, executeToolLog, callLLMLog,
                 taskVars, apprVars, setVars, restVars>>

ProcessHeartbeatBegin == SingleCallBegin("heartbeat")

\* processHeartbeat and processTrigger read response.content only
ProcessHeartbeatResponse == TrackedResponse("heartbeat", {<<>>})

\* 'HEARTBEAT_OK' is answered with null
ProcessHeartbeatAct == SingleCallAct("heartbeat", {"content", "null"})

ProcessTriggerBegin == SingleCallBegin("trigger")

ProcessTriggerResponse == TrackedResponse("trigger", {<<>>})

ProcessTriggerAct == SingleCallAct("trigger", {"content"})

\* updateTaskStatus(id, status): the task is changed and persisted
UpdateTaskStatus(id, status) ==
  /\ tasks' = [tasks EXCEPT ![id] = status]
  /\ taskDisk' = PersistTask(taskDisk, tasks', id)
  /\ UNCHANGED <<taskDisk0, tqPc, tqNext, interrupted>>

\* orchestrate(task) -> planTask(task) up to its callLLM; the task is
\* one that create_task has created.
PlanTask ==
  /\ worker.path = "idle"
  /\ turns < MaxTurns
  /\ turns' = turns + 1
  /\ \E id \in TaskIds :
       /\ tasks[id] = "pending"
       /\ UpdateTaskStatus(id, "running")
       /\ worker' = [IdleWorker EXCEPT !.path = "plan", !.pc = "llm",
                                       !.task = id]
  /\ reply' = "none"
  /\ NewLogs({LLMCall("plan")})
  /\ UNCHANGED <<apprVars, costVars, setVars, restVars>>

\* planTask with the response, a plan of one sequential subtask (the
\* plan that a response without JSON yields too); executePlan starts
\* executeSubtask, which creates the child task, sets it running and
\* reads the settings.  No usage is recorded anywhere.
PlanTaskResponse ==
  /\ worker.path = "plan"
  /\ worker.pc = "llm"
  /\ \E usage \in BOOLEAN, child \in TaskIds :
       /\ tasks[child] = "none"
       /\ \A j \in TaskIds : j < child => tasks[j] # "none"
       /\ actedLog' = IF usage
                      THEN actedLog \cup {[path |-> "plan", tracked |-> FALSE]}
                      ELSE actedLog
       /\ UpdateTaskStatus(child, "running")
       /\ worker' = [worker EXCEPT !.path = "subtask", !.pc = "loop",
                                   !.child = child,
                                   !.autonomy = current.autonomyLevel]
  /\ UNCHANGED <<reply, turns, executeToolLog, callLLMLog,
                 apprVars, costVars, setVars, restVars>>

\* The end of executeSubtask (the child task is completed), and
\* synthesizeResults up to its callLLM.
FinalizeSubtask ==
  /\ UpdateTaskStatus(worker.child, "completed")
  /\ CallLLM("synthesis")
  /\ worker' = [worker EXCEPT !.path = "synthesis", !.pc = "llm"]

\* The head of the while loop of executeSubtask
ExecuteSubtaskLoop ==
  /\ worker.path = "subtask"
  /\ worker.pc = "loop"
  /\ IF worker.iterations < Min(MaxToolCallsPerMessage, SubtaskIterationCap)
     THEN /\ worker' = [worker EXCEPT !.iterations = @ + 1, !.pc = "llm"]
          /\ CallLLM("subtask")
          /\ UNCHANGED taskVars
     ELSE FinalizeSubtask
  /\ UNCHANGED <<reply, turns, executeToolLog, actedLog,
                 apprVars, costVars, setVars, restVars>>

\* executeSubtask with a response: the usage goes to the sub-agent and,
\* with addUsage, to the child and the parent task; without tool calls
\* the loop is left.
ExecuteSubtaskResponse ==
  /\ worker.path = "subtask"
  /\ worker.pc = "llm"
  /\ \E toolCalls \in ToolCallLists, usage \in BOOLEAN :
       /\ actedLog' = IF usage
                      THEN actedLog \cup
                             {[path |-> "subtask", tracked |-> FALSE]}
                      ELSE actedLog
       /\ IF toolCalls = <<>>
          THEN FinalizeSubtask
          ELSE /\ worker' = [worker EXCEPT !.pc = "tool", !.tcIndex = 1,
                                           !.toolCalls = toolCalls,
                                           !.usage = usage,
                                           !.messages = <<>>]
               /\ UNCHANGED <<callLLMLog, taskVars>>
  /\ UNCHANGED <<reply, turns, executeToolLog, apprVars, costVars, setVars, restVars>>

\* The for loop moves to the next tool call, or the while loop to its
\* next iteration.
NextToolCall(w) ==
  IF w.tcIndex < Len(w.toolCalls)
  THEN [w EXCEPT !.tcIndex = @ + 1, !.pc = "tool", !.approval = 0]
  ELSE [w EXCEPT !.pc = "loop", !.approval = 0]

\* One tool call of the for loop: approval is requested if
\* shouldRequestApproval says so, otherwise the call is executed.
ExecuteSubtaskTool ==
  /\ worker.path = "subtask"
  /\ worker.pc = "tool"
  /\ IF ShouldRequestApproval(worker.toolCalls[worker.tcIndex],
                              worker.autonomy)
     THEN \E id \in ApprovalIds :
            /\ \A j \in ApprovalIds : j < id => approvals[j].status # "none"
            /\ RequestApprovalBegin(id)
            /\ worker' = [worker EXCEPT !.pc = "approval", !.approval = id]
            /\ UNCHANGED executeToolLog
     ELSE /\ ExecuteTool("subtask", {worker.tcIndex}, worker.autonomy, 0)
          /\ worker' = NextToolCall([worker EXCEPT !.messages =
                          Append(@, ToolResult(worker.tcIndex))])
          /\ UNCHANGED apprVars
  /\ UNCHANGED <<reply, turns, callLLMLog, actedLog,
                 taskVars, costVars, setVars, restVars>>

AwaitSkipped(settled) == TRUE

\* await requestApproval(...): the worker goes on when the promise is
\* settled
Awaited(settled) == settled \in {"true", "false"}

ApprovedAlways(settled) == TRUE

\* const approved = await requestApproval(...); if (!approved) ...
Approved(settled) == settled = "true"

\* requestApproval's promise is settled: an approved call is executed,
\* for any other the rejection is pushed as the call's result and the
\* for loop continues.
ExecuteSubtaskApproval ==
  /\ worker.path = "subtask"
  /\ worker.pc = "approval"
  /\ Awaited(future[worker.approval])
  /\ IF Approved(future[worker.approval])
     THEN /\ ExecuteTool("subtask", {worker.tcIndex}, worker.autonomy,
                         worker.approval)
          /\ worker' = NextToolCall([worker EXCEPT !.messages =
                          Append(@, ToolResult(worker.tcIndex))])
     ELSE /\ worker' = NextToolCall([worker EXCEPT !.messages =
                          Append(@, RejectedResult(worker.tcIndex))])
          /\ UNCHANGED executeToolLog
  /\ UNCHANGED <<reply, turns, callLLMLog, actedLog,
                 taskVars, apprVars, costVars, setVars, restVars>>

\* synthesizeResults with the response (usage goes to the parent task
\* with addUsage); orchestrate completes the task and returns.
SynthesizeResultsResponse ==
  /\ worker.path = "synthesis"
  /\ worker.pc = "llm"
  /\ \E usage \in BOOLEAN :
       actedLog' = IF usage
                   THEN actedLog \cup
                          {[path |-> "synthesis", tracked |-> FALSE]}
                   ELSE actedLog
  /\ UpdateTaskStatus(worker.task, "completed")
  /\ Return("content")
  /\ UNCHANGED <<turns, executeToolLog, callLLMLog,
                 apprVars, costVars, setVars, restVars>>

\* ------------------------------------------------------------------
\* Task store: the mutators of queue.ts on whole task records.  A
\* mutator changes the record in the map and awaits persistTask, which
\* awaits mkdir, serialises the record as it is then, and awaits the
\* write.  Nothing orders two calls that are in flight together.
\* ------------------------------------------------------------------
StoreIds == 1..MaxStoreTasks

WriteSlots == 1..MaxWrites

Priorities == {"critical", "high", "normal", "low"}

StepStatus == {"pending", "running", "completed", "failed"}

\* An optional Date field: undefined, a Date, or the ISO string that
\* JSON.stringify makes of a Date
Unset == [kind |-> "unset", t |-> 0]

DateAt(t) == [kind |-> "date", t |-> t]

\* if (!task.startedAt), task.completedAt ? ... : a Date and a non-empty
\* string are both truthy
IsSet(d) == d.kind # "unset"

NoTask ==
  [status |-> "none", priority |-> "none", progress |-> 0, steps |-> <<>>,
   usage |-> 0, scratchpad |-> 0, createdAt |-> Unset, updatedAt |-> Unset,
   startedAt |-> Unset, completedAt |-> Unset]

\* extra?.progress === undefined
NoProgress == -1

\* The task createTask builds
NewTask(priority) ==
  [status |-> "pending", priority |-> priority, progress |-> 0,
   steps |-> <<>>, usage |-> 0, scratchpad |-> 0,
   createdAt |-> DateAt(now), updatedAt |-> DateAt(now),
   startedAt |-> Unset, completedAt |-> Unset]

\* Date.prototype.toJSON
ToISO(d) == IF d.kind = "date" THEN [kind |-> "string", t |-> d.t] ELSE d

\* JSON.stringify(task, null, 2)
Stringify(task) ==
  [task EXCEPT !.createdAt = ToISO(@), !.updatedAt = ToISO(@),
               !.startedAt = ToISO(@), !.completedAt = ToISO(@)]

\* JSON.parse(raw) as Task, then createdAt and updatedAt are made Dates
\* again; startedAt and completedAt stay the strings of the document
ParseTaskFile(doc) ==
  [doc EXCEPT !.createdAt = DateAt(@.t), !.updatedAt = DateAt(@.t)]

NoWrite == [pc |-> "idle", task |-> 0, doc |-> NoTask]

\* A mutator reaches `await persistTask(task)`: the call takes the first
\* free slot of the model and awaits mkdir.
PersistTaskBegin(id) ==
  \E slot \in WriteSlots :
    /\ persisting[slot].pc = "idle"
    /\ \A j \in WriteSlots : j < slot => persisting[j].pc # "idle"
    /\ persisting' = [persisting EXCEPT ![slot] =
                        [pc |-> "mkdir", task |-> id, doc |-> NoTask]]

\* The next call of a mutator finds a later time
Later ==
  /\ now < MaxNow
  /\ now' = now + 1

\* The record of task id is replaced and persisted
Mutate(id, task) ==
  /\ taskMap[id].status # "none"
  /\ taskMap' = [taskMap EXCEPT ![id] = task]
  /\ PersistTaskBegin(id)
  /\ Later
  /\ UNCHANGED <<mapOrder, taskFiles>>

\* The task object persistTask was called with: the record of the map,
\* or the record as deleteTask took it out of the map
Held(slot) ==
  IF persisting[slot].doc # NoTask THEN persisting[slot].doc
  ELSE taskMap[persisting[slot].task]

\* persistTask after mkdir: JSON.stringify(task) is evaluated and
\* fs.writeFile is started
PersistTaskStringify(slot) ==
  /\ persisting[slot].pc = "mkdir"
  /\ persisting' = [persisting EXCEPT ![slot].pc = "write",
                       ![slot].doc = Stringify(Held(slot))]
  /\ UNCHANGED <<taskMap, mapOrder, taskFiles, now>>

\* fs.writeFile completes: the file holds the document of this call, and
\* the mutator returns
PersistTaskWritten(slot) ==
  /\ persisting[slot].pc = "write"
  /\ taskFiles' = [taskFiles EXCEPT ![persisting[slot].task] =
                     persisting[slot].doc]
  /\ persisting' = [persisting EXCEPT ![slot] = NoWrite]
  /\ UNCHANGED <<taskMap, mapOrder, now>>

\* uuid() draws an id no task has had
CreateTask(priority) ==
  \E id \in StoreIds :
    /\ taskMap[id].status = "none"
    /\ id \notin removed
    /\ \A j \in StoreIds :
         j < id => (taskMap[j].status # "none" \/ j \in removed)
    /\ taskMap' = [taskMap EXCEPT ![id] = NewTask(priority)]
    /\ mapOrder' = Append(mapOrder, id)
    /\ PersistTaskBegin(id)
    /\ Later
    /\ UNCHANGED taskFiles

\* updateTaskStatus(id, status, extra) up to persistTask
WithStatus(task, status, progress) ==
  [task EXCEPT
     !.status = status,
     !.updatedAt = DateAt(now),
     !.startedAt = IF status = "running" /\ ~IsSet(@) THEN DateAt(now) ELSE @,
     !.completedAt = IF status \in {"completed", "failed"}
                     THEN DateAt(now) ELSE @,
     !.progress = IF progress # NoProgress THEN progress ELSE @]

\* The calls of updateTaskStatus in the repository: task_action (pause,
\* resume, cancel), planTask and executeSubtask (running), executePlan
\* (running with the progress of the plan), executeSubtask's end
\* (completed with a result), orchestrate (completed with progress 100,
\* failed with an error)
StatusCalls ==
  {<<"paused", NoProgress>>, <<"pending", NoProgress>>,
   <<"cancelled", NoProgress>>, <<"running", NoProgress>>,
   <<"running", 90>>, <<"completed", NoProgress>>,
   <<"completed", 100>>, <<"failed", NoProgress>>}

\* addTaskStep up to persistTask
WithStep(task) ==
  [task EXCEPT !.steps = Append(@, "pending"), !.updatedAt = DateAt(now)]

\* Math.round((completed / task.steps.length) * 100)
StepProgress(steps) ==
  LET completed == Cardinality({i \in DOMAIN steps : steps[i] = "completed"})
  IN IF Len(steps) > 0
     THEN (200 * completed + Len(steps)) \div (2 * Len(steps))
     ELSE 0

\* updateTaskStep up to persistTask
WithStepUpdate(task, i, status) ==
  LET steps == [task.steps EXCEPT ![i] = status]
  IN [task EXCEPT !.steps = steps, !.progress = StepProgress(steps),
                  !.updatedAt = DateAt(now)]

\* addUsage up to persistTask: updatedAt is left alone
WithUsage(task) == [task EXCEPT !.usage = @ + 1]

\* appendScratchpad up to persistTask
WithNote(task) ==
  [task EXCEPT !.scratchpad = @ + 1, !.updatedAt = DateAt(now)]

RECURSIVE SortByKey(_, _)
\* Array.prototype.sort with the comparator key[a] - key[b]: ascending
\* and stable
SortByKey(s, key) ==
  IF s = <<>> THEN <<>>
  ELSE LET sorted == SortByKey(SubSeq(s, 1, Len(s) - 1), key)
           x == s[Len(s)]
           after == {i \in 1..Len(sorted) : key[sorted[i]] > key[x]}
       IN IF after = {} THEN Append(sorted, x)
          ELSE LET p == CHOOSE i \in after : \A j \in after : i <= j
               IN SubSeq(sorted, 1, p - 1) \o <<x>> \o
                  SubSeq(sorted, p, Len(sorted))

\* getAllTasks: the values of the map, latest updatedAt first
GetAllTasks ==
  SortByKey(mapOrder, [id \in StoreIds |-> 0 - taskMap[id].updatedAt.t])

GetTasksByStatus(status) ==
  SelectSeq(GetAllTasks, LAMBDA id : taskMap[id].status = status)

\* priorityOrder[a.priority] ?? 2
PriorityOrder(priority) ==
  CASE priority = "critical" -> 0
    [] priority = "high" -> 1
    [] priority = "normal" -> 2
    [] priority = "low" -> 3
    [] OTHER -> 2

\* getNextPendingTask: the id of pending[0], 0 for undefined
GetNextPendingTask ==
  LET pending == SortByKey(GetTasksByStatus("pending"),
                   [id \in StoreIds |-> PriorityOrder(taskMap[id].priority)])
  IN IF pending = <<>> THEN 0 ELSE pending[1]

\* initTaskQueue of a new process on the files of the old one: every
\* document is parsed into the map, then every running task is paused
\* and persisted.  readdir yields the files in some order.
Reloaded(files) ==
  [id \in StoreIds |->
     IF files[id].status = "none" THEN NoTask
     ELSE LET task == ParseTaskFile(files[id])
          IN IF task.status = "running"
             THEN [task EXCEPT !.status = "paused"]
             ELSE task]

Orders(ids) ==
  {o \in [1..Cardinality(ids) -> ids] :
     \A i, j \in DOMAIN o : i # j => o[i] # o[j]}

InitTaskQueue ==
  /\ taskMap' = Reloaded(taskFiles)
  /\ taskFiles' = [id \in StoreIds |->
                     IF taskFiles[id].status = "running"
                     THEN Stringify(taskMap'[id]) ELSE taskFiles[id]]
  /\ mapOrder' \in Orders({id \in StoreIds : taskFiles[id].status # "none"})
  /\ persisting' = [slot \in WriteSlots |-> NoWrite]
  /\ UNCHANGED now

\* deleteTask(id) up to its await of fs.unlink; a persistTask call that
\* is suspended on the task keeps the object
DeleteTask(id) ==
  /\ taskMap[id].status # "none"
  /\ id \notin unlinking
  /\ taskMap' = [taskMap EXCEPT ![id] = NoTask]
  /\ mapOrder' = SelectSeq(mapOrder, LAMBDA other : other # id)
  /\ persisting' =
       [slot \in WriteSlots |->
          IF persisting[slot].pc = "mkdir" /\ persisting[slot].task = id
          THEN [persisting[slot] EXCEPT !.doc = taskMap[id]]
          ELSE persisting[slot]]
  /\ removed' = removed \cup {id}
  /\ unlinking' = unlinking \cup {id}
  /\ UNCHANGED <<taskFiles, now, deleteReturned>>

\* fs.unlink has settled, with the file gone, and deleteTask returns true
DeleteTaskReturns(id) ==
  /\ id \in unlinking
  /\ taskFiles' = [taskFiles EXCEPT ![id] = NoTask]
  /\ unlinking' = unlinking \ {id}
  /\ deleteReturned' = deleteReturned \cup {id}
  /\ UNCHANGED <<taskMap, mapOrder, persisting, now, removed>>

DelRest ==
  /\ removed = {}
  /\ unlinking = {}
  /\ deleteReturned = {}

StoreStart ==
  /\ taskMap = [id \in StoreIds |-> NoTask]
  /\ mapOrder = <<>>
  /\ taskFiles = [id \in StoreIds |-> NoTask]
  /\ persisting = [slot \in WriteSlots |-> NoWrite]
  /\ now = 1

\* ------------------------------------------------------------------
\* Orchestrator: orchestrate, planTask, executePlan and the workers that
\* executeSubtask starts.  A worker is followed from await to await; each
\* awaited call of it (task store, LLM, approval broker) may reject.
\* ------------------------------------------------------------------
SubtaskIds == 1..MaxSubtasks

\* parallelGroup: "A|B|C...", or none for a sequential subtask
GroupLabels == {"A", "B"}

NoGroup == "none"

\* The plans planTask can return: what the LLM's JSON says, or the one
\* sequential subtask of the fallback
Plans == UNION {[1..n -> GroupLabels \cup {NoGroup}] : n \in 0..MaxSubtasks}

\* a.localeCompare(b) on the labels
LabelRank == [label \in GroupLabels |-> IF label = "A" THEN 1 ELSE 2]

NoChild == [status |-> "none", error |-> FALSE]

NewSubtask ==
  [pc |-> "new", status |-> "pending", child |-> NoChild, started |-> 0,
   iteration |-> 0, toolCalls |-> 0]

OrchStart ==
  /\ plan = <<>>
  /\ parent = [status |-> "pending", progress |-> 0, error |-> FALSE]
  /\ orch = [pc |-> "idle", index |-> 0, completed |-> {}]
  /\ subs = [s \in SubtaskIds |-> NewSubtask]

RECURSIVE GroupKeys(_)
\* The keys of the groups map in insertion order, over subtasks 1..n
GroupKeys(n) ==
  IF n = 0 THEN <<>>
  ELSE LET keys == GroupKeys(n - 1)
       IN IF plan[n] = NoGroup \/ \E i \in DOMAIN keys : keys[i] = plan[n]
          THEN keys
          ELSE Append(keys, plan[n])

AllGroupsUnsorted == GroupKeys(Len(plan))

\* [...groups.entries()].sort(([a], [b]) => a.localeCompare(b))
AllGroups == SortByKey(GroupKeys(Len(plan)), LabelRank)

GroupTasks(label) == {s \in DOMAIN plan : plan[s] = label}

RECURSIVE SequentialFrom(_)
\* The array `sequential`, from subtask s on
SequentialFrom(s) ==
  IF s > Len(plan) THEN <<>>
  ELSE IF plan[s] = NoGroup THEN <<s>> \o SequentialFrom(s + 1)
  ELSE SequentialFrom(s + 1)

\* The promise of executeSubtask is settled
HasSettled(s) == subs[s].pc \in {"fulfilled", "rejected"}

PlanProgressCap == 90

PlanProgressUncapped(done, n) == (2 * done * 100 + n) \div (2 * n)

\* Math.round((completed.size / subtasks.length) * 90)
PlanProgress(done, n) == (2 * done * PlanProgressCap + n) \div (2 * n)

\* executeSubtask up to its first await: createTask has put the child
\* task in the map as pending
StartWorker(w) ==
  [w EXCEPT !.pc = "create", !.started = @ + 1,
            !.child = [status |-> "pending", error |-> FALSE]]

\* What executePlan records of a settled subtask: st.status
Recorded(w) ==
  [w EXCEPT !.status = IF w.pc = "fulfilled" THEN "completed" ELSE "failed"]

\* orchestrate's catch: updateTaskStatus(task.id, 'failed', { error })
OrchestrateFails ==
  /\ parent' = [parent EXCEPT !.status = "failed", !.error = TRUE]
  /\ orch' = [orch EXCEPT !.pc = "failed"]

\* The same after an updateTaskStatus of executePlan that has changed the
\* record to p and then rejects
OrchestrateFailsWith(p) ==
  /\ parent' = [p EXCEPT !.status = "failed", !.error = TRUE]
  /\ orch' = [orch EXCEPT !.pc = "failed"]

\* updateTaskStatus(parentTask.id, 'running', { progress })
Advanced(completed) ==
  [parent EXCEPT
     !.status = "running",
     !.progress = PlanProgress(Cardinality(completed), Len(plan))]

\* orchestrate -> planTask up to callLLM: the parent task is running
OrchestrateBegin ==
  /\ orch.pc = "idle"
  /\ parent' = [parent EXCEPT !.status = "running"]
  /\ orch' = [orch EXCEPT !.pc = "plan"]
  /\ UNCHANGED <<plan, subs>>

\* planTask with the LLM's response, or callLLM rejects
PlanTaskReturns ==
  /\ orch.pc = "plan"
  /\ \/ /\ plan' \in Plans
        /\ orch' = [orch EXCEPT !.pc = "groups", !.index = 1]
        /\ UNCHANGED parent
     \/ OrchestrateFails /\ UNCHANGED plan
  /\ UNCHANGED subs

\* The head of the loop over allGroups: the workers of the next group are
\* all started (or appendScratchpad rejects before that), or the loop is
\* left
ExecutePlanGroup ==
  /\ orch.pc = "groups"
  /\ IF orch.index <= Len(AllGroups)
     THEN \/ /\ subs' = [s \in SubtaskIds |->
                           IF s \in GroupTasks(AllGroups[orch.index])
                           THEN StartWorker(subs[s]) ELSE subs[s]]
             /\ orch' = [orch EXCEPT !.pc = "group"]
             /\ UNCHANGED parent
          \/ OrchestrateFails /\ UNCHANGED subs
     ELSE /\ orch' = [orch EXCEPT !.pc = "sequential", !.index = 1]
          /\ UNCHANGED <<subs, parent>>
  /\ UNCHANGED plan

\* Promise.allSettled(promises) is settled: the results are recorded and
\* the parent's progress is advanced
ExecutePlanGroupSettled ==
  /\ orch.pc = "group"
  /\ LET group == GroupTasks(AllGroups[orch.index])
         completed == orch.completed \cup group
     IN /\ \A s \in group : HasSettled(s)
        /\ subs' = [s \in SubtaskIds |->
                      IF s \in group THEN Recorded(subs[s]) ELSE subs[s]]
        /\ \/ /\ parent' = Advanced(completed)
              /\ orch' = [orch EXCEPT !.pc = "groups", !.index = @ + 1,
                                      !.completed = completed]
           \/ OrchestrateFailsWith(Advanced(completed))
  /\ UNCHANGED plan

\* The head of the loop over `sequential`: the next subtask's worker is
\* started, or synthesizeResults calls the LLM
ExecutePlanSequential ==
  /\ orch.pc = "sequential"
  /\ IF orch.index <= Len(SequentialFrom(1))
     THEN \/ /\ subs' = [subs EXCEPT ![SequentialFrom(1)[orch.index]] =
                           StartWorker(@)]
             /\ orch' = [orch EXCEPT !.pc = "subtask"]
             /\ UNCHANGED parent
          \/ OrchestrateFails /\ UNCHANGED subs
     ELSE /\ orch' = [orch EXCEPT !.pc = "synthesis"]
          /\ UNCHANGED <<subs, parent>>
  /\ UNCHANGED plan

\* await executeSubtask(...) of a sequential subtask returns or throws
ExecutePlanSubtaskSettled ==
  /\ orch.pc = "subtask"
  /\ LET s == SequentialFrom(1)[orch.index]
         completed == orch.completed \cup {s}
     IN /\ HasSettled(s)
        /\ subs' = [subs EXCEPT ![s] = Recorded(@)]
        /\ \/ /\ parent' = Advanced(completed)
              /\ orch' = [orch EXCEPT !.pc = "sequential", !.index = @ + 1,
                                      !.completed = completed]
           \/ OrchestrateFailsWith(Advanced(completed))
  /\ UNCHANGED plan

\* synthesizeResults returns and orchestrate completes the task, or
\* callLLM rejects
SynthesizeResultsReturns ==
  /\ orch.pc = "synthesis"
  /\ \/ /\ parent' = [parent EXCEPT !.status = "completed",
                                    !.progress = 100]
        /\ orch' = [orch EXCEPT !.pc = "done"]
     \/ OrchestrateFails
  /\ UNCHANGED <<plan, subs>>

\* An awaited call of the worker rejects: executeSubtask has no catch,
\* its promise is rejected and its locals are gone
SubtaskThrows(s) ==
  /\ subs[s].pc \in {"create", "running", "llm", "approval", "finalize"}
  /\ subs' = [subs EXCEPT ![s].pc = "rejected", ![s].iteration = 0,
                          ![s].toolCalls = 0]

\* createTask has returned: updateTaskStatus(childTask.id, 'running')
SubtaskCreated(s) ==
  /\ subs[s].pc = "create"
  /\ subs' = [subs EXCEPT ![s].pc = "running",
                          ![s].child.status = "running"]

\* agent.status = 'idle'; updateTaskStatus(childTask.id, 'completed', ...)
Finalize(w) ==
  [w EXCEPT !.pc = "finalize", !.child.status = "completed",
            !.iteration = 0, !.toolCalls = 0]

\* The head of the while loop: callLLM, or the iterations are used up
SubtaskLoop(s) ==
  /\ subs[s].pc \in {"running", "loop"}
  /\ subs' = [subs EXCEPT ![s] =
       IF @.iteration < Min(MaxToolCallsPerMessage, SubtaskIterationCap)
       THEN [@ EXCEPT !.pc = "llm", !.iteration = @ + 1]
       ELSE Finalize(@)]

\* The response (its usage is added to child and parent): without tool
\* calls the loop is left
SubtaskResponse(s) ==
  /\ subs[s].pc = "llm"
  /\ \E n \in 0..MaxToolCalls :
       subs' = [subs EXCEPT ![s] =
         IF n = 0 THEN Finalize(@)
         ELSE [@ EXCEPT !.pc = "tool", !.toolCalls = n]]

\* The for loop goes to the next tool call or is left
AfterTool(w) ==
  IF w.toolCalls > 1
  THEN [w EXCEPT !.pc = "tool", !.toolCalls = @ - 1]
  ELSE [w EXCEPT !.pc = "loop", !.toolCalls = 0]

\* One tool call: requestApproval is awaited if shouldRequestApproval
\* says so, otherwise executeTool
SubtaskTool(s) ==
  /\ subs[s].pc = "tool"
  /\ \E tool \in ToolNames :
       subs' = [subs EXCEPT ![s] =
         IF ShouldRequestApproval(tool, current.autonomyLevel)
         THEN [@ EXCEPT !.pc = "approval"]
         ELSE AfterTool(@)]

\* The approval is settled either way
SubtaskApproval(s) ==
  /\ subs[s].pc = "approval"
  /\ subs' = [subs EXCEPT ![s] = AfterTool(@)]

\* updateTaskStatus(childTask.id, 'completed') has returned: the worker
\* returns its result
SubtaskFinalized(s) ==
  /\ subs[s].pc = "finalize"
  /\ subs' = [subs EXCEPT ![s].pc = "fulfilled"]

\* ------------------------------------------------------------------
\* Startup of the approval queue: initApprovalQueue reads the files of
\* the approvals directory one after the other.  The map it fills is the
\* broker's approvals map, here with the expiry date of each request.
\* ------------------------------------------------------------------
FileIds == 1..MaxFiles

ApprovalStatus == {"pending", "approved", "rejected", "expired"}

\* No such file, or no such entry in the map
NoFile == [kind |-> "none", status |-> "none", expiresAt |-> 0]

\* A file JSON.parse throws on
CorruptFile == [kind |-> "corrupt", status |-> "none", expiresAt |-> 0]

\* What the approvals directory can hold when the process starts
ApprovalFileContents ==
  {NoFile, CorruptFile} \cup
  [kind : {"json"}, status : ApprovalStatus, expiresAt : 1..MaxLoadClock]

LoadStart ==
  /\ approvalDisk0 \in [FileIds -> ApprovalFileContents]
  /\ approvalFiles = approvalDisk0
  /\ loadedApprovals = [f \in FileIds |-> NoFile]
  /\ loadClock \in 1..MaxLoadClock
  /\ aqPc = "read"
  /\ aqNext = 1

\* Time passes while initApprovalQueue awaits the file system
LoadTick ==
  /\ aqPc # "done"
  /\ loadClock < MaxLoadClock
  /\ loadClock' = loadClock + 1
  /\ UNCHANGED <<aqPc, aqNext, approvalDisk0, approvalFiles, loadedApprovals>>

\* req.status === 'pending' && new Date() > req.expiresAt
Stale(req) == req.status = "pending" /\ loadClock > req.expiresAt

\* The for loop goes to the next file, or the function returns
NextFile ==
  /\ aqNext' = aqNext + 1
  /\ aqPc' = IF aqNext = MaxFiles THEN "done" ELSE "read"

\* One file of the loop, from readFile to the next await: a file that is
\* not there is not in `files`, a corrupted one is skipped by the catch, a
\* stale one is marked expired and persistApproval is awaited, any other
\* is put in the map
InitApprovalQueueRead ==
  /\ aqPc = "read"
  /\ LET req == approvalFiles[aqNext]
     IN IF req.kind # "json"
        THEN NextFile /\ UNCHANGED loadedApprovals
        ELSE IF Stale(req)
        THEN /\ aqPc' = "persist"
             /\ UNCHANGED <<aqNext, loadedApprovals>>
        ELSE /\ loadedApprovals' = [loadedApprovals EXCEPT ![aqNext] = req]
             /\ NextFile
  /\ UNCHANGED <<approvalDisk0, approvalFiles, loadClock>>

\* persistApproval(req) has written the expired request, which is then
\* put in the map; or the write has failed and the catch skips the file
InitApprovalQueuePersisted ==
  /\ aqPc = "persist"
  /\ LET req == [approvalFiles[aqNext] EXCEPT !.status = "expired"]
     IN \/ /\ approvalFiles' = [approvalFiles EXCEPT ![aqNext] = req]
           /\ loadedApprovals' = [loadedApprovals EXCEPT ![aqNext] = req]
        \/ UNCHANGED <<approvalFiles, loadedApprovals>>
  /\ NextFile
  /\ UNCHANGED <<approvalDisk0, loadClock>>

\* ------------------------------------------------------------------
\* Tool registry: executeTool with the handlers of run_shell and web_fetch
\* and the guards they call.  What a handler does outside the process is
\* collected in `effects`: "spawn" a child process, "dns" a lookup, "http"
\* a request.
\* ------------------------------------------------------------------
ShellCommands == {"rm -rf /", "ls"}

\* SHELL_BLOCK_PATTERNS on the commands above
MatchesBlockPattern(command) == command = "rm -rf /"

\* input.workdir: not given, inside the workspace, outside of it
Workdirs == {"unset", "sub", "../outside"}

\* safePath throws on a path that leaves the workspace
OutsideWorkspace(workdir) == workdir = "../outside"

\* parsed.hostname, by the form of its text: four dotted octets, an
\* IPv6 address (which new URL() keeps inside its brackets), or a name
Ipv4(octets) == [form |-> "ipv4", octets |-> octets, text |-> "dotted"]
Ipv6(text) == [form |-> "ipv6", octets |-> <<>>, text |-> text]
Named(text) == [form |-> "name", octets |-> <<>>, text |-> text]

NoHost == Named("unset")

NoUrl == [valid |-> FALSE, scheme |-> "unset", host |-> NoHost]

\* input.url as new URL() sees it: whether it parses, its scheme and host
Urls ==
  {NoUrl} \cup
  [valid : {TRUE}, scheme : {"http", "file", "ws"},
   host : {Ipv4(<<169, 254, 169, 254>>), Ipv4(<<93, 184, 216, 34>>),
           Named("intranet.example")}]

BlockedSchemes == {"file", "ftp", "gopher", "data", "javascript"}

\* net.isIP(hostname): dotted octets are IPv4, an IPv6 address is one
\* only without brackets
IsIP(host) ==
  \/ host.form = "ipv4"
  \/ host.form = "ipv6" /\ host.text \in {"::1", "::ffff:127.0.0.1"}

BLOCKED_IP_RANGES ==
  << [start |-> <<0, 0, 0, 0>>, end |-> <<0, 255, 255, 255>>],
     [start |-> <<10, 0, 0, 0>>, end |-> <<10, 255, 255, 255>>],
     [start |-> <<100, 64, 0, 0>>, end |-> <<100, 127, 255, 255>>],
     [start |-> <<127, 0, 0, 0>>, end |-> <<127, 255, 255, 255>>],
     [start |-> <<169, 254, 0, 0>>, end |-> <<169, 254, 255, 255>>],
     [start |-> <<172, 16, 0, 0>>, end |-> <<172, 31, 255, 255>>],
     [start |-> <<192, 0, 0, 0>>, end |-> <<192, 0, 0, 255>>],
     [start |-> <<192, 168, 0, 0>>, end |-> <<192, 168, 255, 255>>],
     [start |-> <<198, 18, 0, 0>>, end |-> <<198, 19, 255, 255>>] >>

\* The unsigned 32-bit number of four octets, kept as its upper and
\* lower 16 bits
ipToLong(octets) ==
  <<octets[1] * 256 + octets[2], octets[3] * 256 + octets[4]>>

\* a <= b on the numbers of ipToLong
LongLeq(a, b) == a[1] < b[1] \/ (a[1] = b[1] /\ a[2] <= b[2])

\* isBlockedIP(ip)
IsBlockedIP(ip) ==
  \/ ip.form = "ipv6" /\ ip.text \in {"::1", "::ffff:127.0.0.1"}
  \/ /\ ip.form = "ipv4"
     /\ \E i \in 1..Len(BLOCKED_IP_RANGES) :
          /\ LongLeq(ipToLong(BLOCKED_IP_RANGES[i].start), ipToLong(ip.octets))
          /\ LongLeq(ipToLong(ip.octets), ipToLong(BLOCKED_IP_RANGES[i].end))

ToolCalls ==
  {[name |-> "run_shell", command |-> c, workdir |-> w, url |-> NoUrl] :
     c \in ShellCommands, w \in Workdirs} \cup
  {[name |-> "web_fetch", command |-> "unset", workdir |-> "unset",
    url |-> u] : u \in Urls} \cup
  {[name |-> "no_such_tool", command |-> "unset", workdir |-> "unset",
    url |-> NoUrl]}

NoEntry == [tool |-> "none", blocked |-> "absent"]

\* pc: where the call stands; blocked: a guard has thrown SecurityError;
\* phase and entry: the audit(...) in flight; logged and emitted: the
\* lengths of the audit log and of the events when the call began; runs:
\* the calls made so far, the last of which is call.id
NoToolCall ==
  [pc |-> "idle", call |-> [name |-> "none", command |-> "unset",
                            workdir |-> "unset", url |-> NoUrl],
   blocked |-> FALSE, phase |-> "none", entry |-> NoEntry, logged |-> 0,
   emitted |-> 0, runs |-> 0]

NoResult ==
  [kind |-> "none", toolCallId |-> 0, isError |-> FALSE, content |-> "none"]

\* return { toolCallId, content, isError }: the content by how it begins
ToolReturned(id, isError, content) ==
  [kind |-> "returned", toolCallId |-> id, isError |-> isError,
   content |-> content]

\* executeTool's promise is rejected
Raised ==
  [kind |-> "raised", toolCallId |-> 0, isError |-> FALSE, content |-> "none"]

\* eventBus.emit({ type: 'tool_called', tool })
ToolCalled(tool) == [type |-> "tool_called", tool |-> tool, isError |-> FALSE]

\* eventBus.emit({ type: 'tool_result', tool, isError })
ToolResultEvent(tool, isError) ==
  [type |-> "tool_result", tool |-> tool, isError |-> isError]

ToolStart ==
  /\ toolCall = NoToolCall
  /\ sandboxEnabled \in BOOLEAN
  /\ effects = {}
  /\ auditStream \in {"open", "null"}
  /\ auditLog = <<>>
  /\ toolEvents = <<>>
  /\ toolResult = NoResult

\* validateShellCommand throws
ShellBlocked(command) == sandboxEnabled /\ MatchesBlockPattern(command)

\* validateURL throws before any lookup
UrlBlocked(url) ==
  \/ ~url.valid
  \/ url.scheme \in BlockedSchemes
  \/ url.scheme \notin {"http", "https"}
  \/ IsIP(url.host) /\ IsBlockedIP(url.host)

\* The catch of executeTool with the call at tc: audit({blocked, reason})
\* awaits the write if the log is open, and then the error result is
\* returned
Catch(tc, ev, isSecurityBlock) ==
  IF auditStream = "open"
  THEN /\ toolCall' = [tc EXCEPT
            !.pc = "audit", !.phase = "catch",
            !.blocked = isSecurityBlock,
            !.entry = [tool |-> tc.call.name,
                       blocked |-> IF isSecurityBlock THEN "true"
                                   ELSE "false"]]
       /\ toolEvents' = ev
       /\ UNCHANGED toolResult
  ELSE /\ toolCall' = [tc EXCEPT !.pc = "idle", !.blocked = isSecurityBlock]
       /\ toolEvents' = Append(ev, ToolResultEvent(tc.call.name, TRUE))
       /\ toolResult' = ToolReturned(tc.runs, TRUE, "Error:")

\* The handler has returned its string: audit({result}) and the result
Succeed(tc) ==
  IF auditStream = "open"
  THEN /\ toolCall' = [tc EXCEPT
            !.pc = "audit", !.phase = "try",
            !.entry = [tool |-> tc.call.name, blocked |-> "absent"]]
       /\ UNCHANGED <<toolResult, toolEvents>>
  ELSE /\ toolCall' = [tc EXCEPT !.pc = "idle"]
       /\ toolEvents' = Append(toolEvents,
                               ToolResultEvent(tc.call.name, FALSE))
       /\ toolResult' = ToolReturned(tc.runs, FALSE, "output")

\* The handler of run_shell up to execAsync
RunShell(tc, ev) ==
  IF ShellBlocked(tc.call.command)
  THEN Catch(tc, ev, TRUE) /\ effects' = {}
  ELSE IF tc.call.workdir # "unset" /\ OutsideWorkspace(tc.call.workdir)
  THEN Catch(tc, ev, TRUE) /\ effects' = {}
  ELSE /\ effects' = {"spawn"}
       /\ toolCall' = [tc EXCEPT !.pc = "exec"]
       /\ toolEvents' = ev
       /\ UNCHANGED toolResult

\* The handler of web_fetch up to the lookup of validateURL or to fetch
WebFetch(tc, ev) ==
  IF UrlBlocked(tc.call.url)
  THEN Catch(tc, ev, TRUE) /\ effects' = {}
  ELSE IF IsIP(tc.call.url.host)
  THEN /\ effects' = {"http"}
       /\ toolCall' = [tc EXCEPT !.pc = "fetch"]
       /\ toolEvents' = ev
       /\ UNCHANGED toolResult
  ELSE /\ effects' = {"dns"}
       /\ toolCall' = [tc EXCEPT !.pc = "dns"]
       /\ toolEvents' = ev
       /\ UNCHANGED toolResult

\* executeTool(call) up to the first await that leaves the process
ExecuteToolBegin(call) ==
  /\ toolCall.pc = "idle"
  /\ toolCall.runs < MaxToolRuns
  /\ LET tc == [NoToolCall EXCEPT !.call = call, !.logged = Len(auditLog),
                                  !.emitted = Len(toolEvents),
                                  !.runs = toolCall.runs + 1]
         ev == Append(toolEvents, ToolCalled(call.name))
     IN CASE call.name = "run_shell" -> RunShell(tc, ev)
          [] call.name = "web_fetch" -> WebFetch(tc, ev)
          [] OTHER ->
               /\ toolCall' = tc
               /\ toolResult' = ToolReturned(tc.runs, TRUE, "Unknown tool:")
               /\ effects' = {}
               /\ UNCHANGED toolEvents
  /\ UNCHANGED <<sandboxEnabled, auditStream, auditLog>>

\* execAsync has settled: the handler returns the output or, from its own
\* catch, the exit code and stderr
ExecDone ==
  /\ toolCall.pc = "exec"
  /\ Succeed(toolCall)
  /\ UNCHANGED <<sandboxEnabled, effects, auditStream, auditLog>>

\* dns.resolve4 has settled: a private address blocks the call, a public
\* one and a failed lookup let fetch go ahead
DnsResolved ==
  /\ toolCall.pc = "dns"
  /\ \E answer \in {"private", "public", "failed"} :
       IF answer = "private"
       THEN Catch(toolCall, toolEvents, TRUE) /\ UNCHANGED effects
       ELSE /\ effects' = effects \cup {"http"}
            /\ toolCall' = [toolCall EXCEPT !.pc = "fetch"]
            /\ UNCHANGED <<toolResult, toolEvents>>
  /\ UNCHANGED <<sandboxEnabled, auditStream, auditLog>>

\* fetch and res.text() have settled, with a response or an error
FetchDone ==
  /\ toolCall.pc = "fetch"
  /\ \/ Succeed(toolCall)
     \/ Catch(toolCall, toolEvents, FALSE)
  /\ UNCHANGED <<sandboxEnabled, effects, auditStream, auditLog>>

\* auditStream.write has settled.  Written: executeTool returns.  Failed:
\* the audit of the try block throws into the catch, which audits again;
\* the audit of the catch throws out of executeTool
AuditWritten ==
  /\ toolCall.pc = "audit"
  /\ \/ /\ auditLog' = Append(auditLog, toolCall.entry)
        /\ toolCall' = [toolCall EXCEPT !.pc = "idle"]
        /\ toolEvents' =
             Append(toolEvents,
                    ToolResultEvent(toolCall.call.name,
                                    toolCall.phase = "catch"))
        /\ toolResult' = IF toolCall.phase = "try"
                         THEN ToolReturned(toolCall.runs, FALSE, "output")
                         ELSE ToolReturned(toolCall.runs, TRUE, "Error:")
     \/ /\ UNCHANGED auditLog
        /\ IF toolCall.phase = "try"
           THEN Catch(toolCall, toolEvents, FALSE)
           ELSE /\ toolCall' = [toolCall EXCEPT !.pc = "idle"]
                /\ toolResult' = Raised
                /\ UNCHANGED toolEvents
  /\ UNCHANGED <<sandboxEnabled, effects, auditStream>>

\* ------------------------------------------------------------------
\* Security guard: safePath.  A path is taken as path.resolve sees it:
\* absolute or not, and its segments between separators; whether it
\* holds a NUL byte is kept beside them.
\* ------------------------------------------------------------------
\* Segment names: "wx" is a name that begins with the name "w"
SegmentNames == {"..", ".", "home", "w", "wx", "a"}

\* agentConfig.workspace, resolved: /home/w
Workspace == <<"home", "w">>

UserPaths ==
  [absolute : BOOLEAN,
   segs : UNION {[1..n -> SegmentNames] : n \in 0..MaxSegments},
   nul : BOOLEAN]

RECURSIVE NormalizeOnto(_, _)
\* path.normalize of an absolute path: "." is dropped, ".." drops the
\* segment before it and is itself dropped at the root
NormalizeOnto(done, segs) ==
  IF segs = <<>> THEN done
  ELSE LET seg == Head(segs)
       IN NormalizeOnto(
            IF seg = "." THEN done
            ELSE IF seg = ".."
                 THEN (IF done = <<>> THEN done
                       ELSE SubSeq(done, 1, Len(done) - 1))
            ELSE Append(done, seg),
            Tail(segs))

Normalize(segs) == NormalizeOnto(<<>>, segs)

\* path.isAbsolute(userPath) ? path.resolve(userPath)
\*                           : path.resolve(workspace, userPath)
Resolve(userPath) ==
  IF userPath.absolute
  THEN Normalize(userPath.segs)
  ELSE Normalize(Workspace \o userPath.segs)

\* a.startsWith(b) on segment names
NameStartsWith(a, b) == a = b \/ (a = "wx" /\ b = "w")

\* normalizedResolved.startsWith(normalizedWorkspace), without the
\* separator
InsideByPrefix(resolved) ==
  /\ Len(resolved) >= Len(Workspace)
  /\ \A i \in 1..(Len(Workspace) - 1) : resolved[i] = Workspace[i]
  /\ NameStartsWith(resolved[Len(Workspace)], Workspace[Len(Workspace)])

\* normalizedResolved.startsWith(normalizedWorkspace + path.sep) ||
\* normalizedResolved === normalizedWorkspace
Inside(resolved) ==
  \/ /\ Len(resolved) > Len(Workspace)
     /\ SubSeq(resolved, 1, Len(Workspace)) = Workspace
  \/ resolved = Workspace

PathError == [kind |-> "SecurityError", segs |-> <<>>]

SafePath(userPath) ==
  IF userPath.nul THEN PathError
  ELSE LET normalizedResolved == Normalize(Resolve(userPath))
       IN IF ~Inside(normalizedResolved) THEN PathError
          ELSE [kind |-> "path", segs |-> normalizedResolved]

NoPathResult == [kind |-> "none", segs |-> <<>>]

PathStart ==
  /\ pathCall \in [userPath : UserPaths, made : {FALSE}]
  /\ pathResult = NoPathResult

PathRest ==
  /\ pathCall = [userPath |-> [absolute |-> FALSE, segs |-> <<>>,
                               nul |-> FALSE],
                 made |-> FALSE]
  /\ pathResult = NoPathResult

\* safePath(userPath) is called
SafePathCall ==
  /\ ~pathCall.made
  /\ pathCall' = [pathCall EXCEPT !.made = TRUE]
  /\ pathResult' = SafePath(pathCall.userPath)

\* ------------------------------------------------------------------
\* Security guard: validateURL
\* ------------------------------------------------------------------
\* Literal addresses at and around the ends of every blocked range
LiteralOctets ==
  { <<0, 0, 0, 0>>, <<0, 255, 255, 255>>, <<1, 0, 0, 0>>,
    <<9, 255, 255, 255>>, <<10, 0, 0, 0>>, <<10, 255, 255, 255>>,
    <<11, 0, 0, 0>>,
    <<100, 63, 255, 255>>, <<100, 64, 0, 0>>, <<100, 127, 255, 255>>,
    <<100, 128, 0, 0>>,
    <<126, 255, 255, 255>>, <<127, 0, 0, 1>>, <<127, 255, 255, 255>>,
    <<128, 0, 0, 0>>,
    <<169, 253, 255, 255>>, <<169, 254, 169, 254>>, <<169, 255, 0, 0>>,
    <<172, 15, 255, 255>>, <<172, 16, 0, 0>>, <<172, 31, 255, 255>>,
    <<172, 32, 0, 0>>,
    <<191, 255, 255, 255>>, <<192, 0, 0, 0>>, <<192, 0, 0, 255>>,
    <<192, 0, 1, 0>>,
    <<192, 167, 255, 255>>, <<192, 168, 0, 0>>, <<192, 168, 255, 255>>,
    <<192, 169, 0, 0>>,
    <<198, 17, 255, 255>>, <<198, 18, 0, 0>>, <<198, 19, 255, 255>>,
    <<198, 20, 0, 0>>,
    <<93, 184, 216, 34>>, <<255, 255, 255, 255>> }

\* new URL("http://[::1]").hostname is "[::1]"
Hostnames ==
  {Ipv4(o) : o \in LiteralOctets} \cup
  {Ipv6("[::1]"), Named("example.com"), Named("intranet.example")}

RawUrls ==
  {NoUrl} \cup
  [valid : {TRUE}, scheme : {"http", "https", "file", "ftp", "ws"},
   host : Hostnames]

\* The A records dns.resolve4 may answer with
AnswerOctets == {<<93, 184, 216, 34>>, <<10, 0, 0, 0>>, <<198, 19, 255, 255>>}

DnsFailed == [failed |-> TRUE, addresses |-> <<>>]

DnsAnswers ==
  {DnsFailed} \cup
  [failed : {FALSE},
   addresses : UNION {[1..n -> {Ipv4(o) : o \in AnswerOctets}] :
                        n \in 1..MaxRecords}]

NoUrlResult == [kind |-> "none"]
UrlError == [kind |-> "SecurityError"]
UrlParsed == [kind |-> "url"]

NoUrlCall(rawUrl) == [rawUrl |-> rawUrl, pc |-> "idle", answer |-> DnsFailed]

UrlStart ==
  /\ urlCall \in {NoUrlCall(u) : u \in RawUrls}
  /\ urlResult = NoUrlResult

UrlRest ==
  /\ urlCall = NoUrlCall(NoUrl)
  /\ urlResult = NoUrlResult

\* validateURL(rawUrl) up to dns.resolve4, or to its end when it throws
\* or returns for a literal address
ValidateURLBegin ==
  /\ urlCall.pc = "idle"
  /\ IF UrlBlocked(urlCall.rawUrl)
     THEN /\ urlCall' = [urlCall EXCEPT !.pc = "done"]
          /\ urlResult' = UrlError
     ELSE IF IsIP(urlCall.rawUrl.host)
     THEN /\ urlCall' = [urlCall EXCEPT !.pc = "done"]
          /\ urlResult' = UrlParsed
     ELSE /\ urlCall' = [urlCall EXCEPT !.pc = "dns"]
          /\ UNCHANGED urlResult

\* dns.resolve4(hostname) has settled: with addresses, the first blocked
\* one throws; its rejection is caught and the URL is allowed through
ValidateURLResolved ==
  /\ urlCall.pc = "dns"
  /\ \E answer \in DnsAnswers :
       /\ urlCall' = [urlCall EXCEPT !.pc = "done", !.answer = answer]
       /\ urlResult' =
            IF /\ ~answer.failed
               /\ \E i \in 1..Len(answer.addresses) :
                    IsBlockedIP(answer.addresses[i])
            THEN UrlError
            ELSE UrlParsed

\* ------------------------------------------------------------------
\* Security guard: checkRateLimit.  Tokens are counted in thousandths,
\* so that the refill of a number of milliseconds is a whole number.
\* ------------------------------------------------------------------
RateKeys == {"http:1", "ws:1"}

\* One token, in thousandths
Token == 1000

\* The milliseconds between two readings of Date.now() that differ
TickMs == 500

\* refillPerSecond as a fraction: 0, 0.5 (the ws limit), 1 and 2
RefillRates ==
  {[num |-> 0, den |-> 1], [num |-> 1, den |-> 2],
   [num |-> 1, den |-> 1], [num |-> 2, den |-> 1]}

NoBucket == [present |-> FALSE, tokens |-> 0, lastRefill |-> 0]

\* bucket.tokens + elapsed * refillPerSecond, without the cap
RefilledUncapped(tokens, elapsedMs, maxTokens, rate) ==
  tokens + (elapsedMs * rate.num) \div rate.den

\* Math.min(maxTokens, bucket.tokens + elapsed * refillPerSecond)
Refilled(tokens, elapsedMs, maxTokens, rate) ==
  Min(maxTokens * Token, tokens + (elapsedMs * rate.num) \div rate.den)

\* checkRateLimit(key, maxTokens, refillPerSecond) at the instant at:
\* the bucket it leaves and what it returns
CheckRateLimit(bucket, at, maxTokens, rate) ==
  LET found == IF bucket.present THEN bucket
               ELSE [present |-> TRUE, tokens |-> maxTokens * Token,
                     lastRefill |-> at]
      tokens == Refilled(found.tokens, at - found.lastRefill, maxTokens, rate)
  IN IF tokens < Token
     THEN [bucket |-> [found EXCEPT !.tokens = tokens, !.lastRefill = at],
           result |-> FALSE]
     ELSE [bucket |-> [found EXCEPT !.tokens = tokens - Token,
                                    !.lastRefill = at],
           result |-> TRUE]

RateStart ==
  /\ buckets = [k \in RateKeys |-> NoBucket]
  /\ rateNow = 0
  /\ rateConfig \in [maxTokens : 1..MaxCap, rate : RefillRates]
  /\ rateCalls = <<>>

RateRest ==
  /\ buckets = [k \in RateKeys |-> NoBucket]
  /\ rateNow = 0
  /\ rateConfig = [maxTokens |-> 1, rate |-> [num |-> 0, den |-> 1]]
  /\ rateCalls = <<>>

\* A request arrives and the gateway calls checkRateLimit for its key
CheckRateLimitCall ==
  /\ Len(rateCalls) < MaxRateCalls
  /\ \E key \in RateKeys :
       LET out == CheckRateLimit(buckets[key], rateNow,
                                 rateConfig.maxTokens, rateConfig.rate)
       IN /\ buckets' = [buckets EXCEPT ![key] = out.bucket]
          /\ rateCalls' = Append(rateCalls,
                                 [key |-> key, at |-> rateNow,
                                  result |-> out.result,
                                  before |-> buckets, after |-> buckets'])
  /\ UNCHANGED <<rateNow, rateConfig>>

\* Time passes between two requests
RateTick ==
  /\ rateNow < MaxRateTicks * TickMs
  /\ rateNow' = rateNow + TickMs
  /\ UNCHANGED <<buckets, rateConfig, rateCalls>>

\* ------------------------------------------------------------------
\* Model router (src/src/orchestrator/router.ts).  A route is its tier,
\* its provider and costPer1kInput + costPer1kOutput in 1/100000 dollar.
\* ------------------------------------------------------------------
Route(tier, provider, cost) ==
  [tier |-> tier, provider |-> provider, cost |-> cost]

\* DEFAULT_ROUTES, by tier
DefaultRoute(tier) ==
  CASE tier = "fast" -> Route("fast", "anthropic", 480)
    [] tier = "balanced" -> Route("balanced", "anthropic", 1800)
    [] tier = "reasoning" -> Route("reasoning", "anthropic", 9000)
    [] tier = "local" -> Route("local", "ollama", 0)

\* llmConfig: the provider, which API keys are set, whether OLLAMA_MODEL
\* is a non-empty name.  Ollama as the provider needs its model.
LlmConfigs ==
  {c \in [provider : {"anthropic", "openai", "ollama"},
          anthropicApiKey : BOOLEAN, openaiApiKey : BOOLEAN,
          ollamaModel : BOOLEAN] :
     c.provider = "ollama" => c.ollamaModel}

HasTier(rs, tier) == \E i \in 1..Len(rs) : rs[i].tier = tier

\* routes.find(r => r.tier === tier): the index of the first one
FindTier(rs, tier) ==
  CHOOSE i \in 1..Len(rs) :
    rs[i].tier = tier /\ \A j \in 1..(i - 1) : rs[j].tier # tier

\* initModelRouter(): the routes built from llmConfig, in push order
InitModelRouter(c) ==
  LET mainRoute ==
        Route("balanced", c.provider,
              CASE c.provider = "anthropic" -> 1800
                [] c.provider = "openai" -> 2000
                [] OTHER -> 0)
      r1 == <<mainRoute>>
      r2 == IF c.anthropicApiKey
            THEN r1 \o <<DefaultRoute("fast"), DefaultRoute("reasoning")>>
            ELSE r1
      r3 == IF c.openaiApiKey /\ c.provider # "openai"
            THEN Append(r2, Route("fast", "openai", 75))
            ELSE r2
  IN IF c.ollamaModel /\ ~HasTier(r3, "local")
     THEN Append(r3, Route("local", "ollama", 0))
     ELSE r3

\* budgetRemaining in cents; undefined when the caller passes none
BudgetUndefined == -1
LowBudgetCents == 10

\* The routes the budget downgrade chooses from, by index
Priced(rs) == {i \in 1..Len(rs) : rs[i].cost > 0 \/ rs[i].tier = "local"}

\* .sort(by cost)[0] of a stable sort: the first route of least cost
Cheapest(rs) ==
  CHOOSE i \in Priced(rs) :
    \A j \in Priced(rs) :
      rs[i].cost < rs[j].cost \/ (rs[i].cost = rs[j].cost /\ i <= j)

ComplexityTier(complexity) ==
  IF complexity <= 3 THEN "fast"
  ELSE IF complexity <= 7 THEN "balanced"
  ELSE "reasoning"

\* routeSubtask(subtask, budgetRemaining) over the routes rs
RouteSubtask(rs, subtask, budgetRemaining) ==
  IF subtask.requiresPrivacy /\ HasTier(rs, "local")
  THEN rs[FindTier(rs, "local")]
  ELSE IF /\ budgetRemaining # BudgetUndefined
          /\ budgetRemaining < LowBudgetCents
          /\ Priced(rs) # {}
  THEN rs[Cheapest(rs)]
  ELSE IF HasTier(rs, subtask.modelTier)
  THEN rs[FindTier(rs, subtask.modelTier)]
  ELSE IF HasTier(rs, ComplexityTier(subtask.complexity))
  THEN rs[FindTier(rs, ComplexityTier(subtask.complexity))]
  ELSE IF rs # <<>> THEN rs[1]
  ELSE DefaultRoute("balanced")

\* Subtasks as planTask builds them; modelTier "none" is a tier the
\* planner left out
PlannedSubtasks ==
  [requiresPrivacy : BOOLEAN,
   modelTier : {"fast", "balanced", "reasoning", "local", "none"},
   complexity : {1, 3, 4, 7, 8, 10}]

NoRoute == Route("none", "none", 0)

RouteStart ==
  /\ routeCall \in [config : LlmConfigs, subtask : PlannedSubtasks,
                    budgetRemaining : {BudgetUndefined, 5, 10, 50},
                    made : {FALSE}]
  /\ routeResult = NoRoute

RouteRest ==
  /\ routeCall = [config |-> [provider |-> "anthropic",
                              anthropicApiKey |-> TRUE,
                              openaiApiKey |-> FALSE, ollamaModel |-> TRUE],
                  subtask |-> [requiresPrivacy |-> FALSE,
                               modelTier |-> "none", complexity |-> 1],
                  budgetRemaining |-> BudgetUndefined, made |-> FALSE]
  /\ routeResult = NoRoute

\* routeSubtask is called after initModelRouter has built the routes
RouteSubtaskCall ==
  /\ ~routeCall.made
  /\ routeCall' = [routeCall EXCEPT !.made = TRUE]
  /\ routeResult' = RouteSubtask(InitModelRouter(routeCall.config),
                                 routeCall.subtask,
                                 routeCall.budgetRemaining)

\* ------------------------------------------------------------------
\* Session loop with its thread (src/src/gateway/agent.ts,
\* src/src/memory/store.ts), heartbeat (src/unnamed/part_006) and the
\* handlers of src/unnamed/part_007.  One turn is followed from its
\* start to its end; what earlier turns left is in the start state.
\* ------------------------------------------------------------------
\* message.text: its first word, what follows it, and whether it is
\* typed in upper case.  The commands as they are meant to be typed, in
\* either case, and three texts that are no command.
Texts ==
  [word : {"/approve", "/reject"}, arg : {"a1"}, upper : BOOLEAN] \cup
  [word : {"/pending", "/tasks", "/cost", "/costs"}, arg : {""},
   upper : BOOLEAN] \cup
  {[word |-> "hello", arg |-> "", upper |-> FALSE],
   [word |-> "/approve", arg |-> "", upper |-> FALSE],
   [word |-> "/pending", arg |-> "a1", upper |-> FALSE]}

NoText == [word |-> "", arg |-> "", upper |-> FALSE]

\* The id prefix the pending approval answers to
ApprovalPrefix == "a1"

TrimmedAsTyped(text) == text

\* text.trim().toLowerCase()
Trimmed(text) == [text EXCEPT !.upper = FALSE]

\* The patterns of handleChatCommand on the trimmed text, in their
\* order; "none" is its return of null
Command(trimmed) ==
  IF trimmed.upper THEN "none"
  ELSE CASE trimmed.word = "/approve" /\ trimmed.arg # "" -> "approve"
         [] trimmed.word = "/reject" /\ trimmed.arg # "" -> "reject"
         [] trimmed.word = "/pending" /\ trimmed.arg = "" -> "pending"
         [] trimmed.word = "/tasks" /\ trimmed.arg = "" -> "tasks"
         [] trimmed.word \in {"/cost", "/costs"} /\ trimmed.arg = "" -> "cost"
         [] OTHER -> "none"

CommandReplies ==
  {"Approved:", "Rejected:", "No pending approval matching",
   "pending approvals", "tasks", "Today:"}

BudgetExceeded == "Daily LLM budget exceeded"
BudgetLimit == "I've hit the daily budget limit"
MaxIterationsNotice == "I reached the maximum number of tool calls"

\* Thread messages; the id of a tool call is the iteration of its
\* response and its position in it
UserText == [role |-> "user", content |-> "text", id |-> <<0, 0>>]

AssistantText(content) ==
  [role |-> "assistant", content |-> content, id |-> <<0, 0>>]

\* The assistant turn with the n tool_use blocks of the response
AssistantToolUse(iteration, n) ==
  [role |-> "assistant", content |-> "tool_use", id |-> <<iteration, n>>]

ToolTurn(id) == [role |-> "tool", content |-> "result", id |-> id]

NoResponse == [n |-> 0, content |-> "none", usage |-> FALSE]

IdleTurn ==
  [mode |-> "none", pc |-> "idle", text |-> NoText, iterations |-> 0,
   llmCalls |-> 0, loads |-> 0, saves |-> 0, old |-> 0, summary |-> FALSE,
   systems |-> 0,
   added |-> <<>>, response |-> NoResponse, first |-> NoResponse,
   running |-> {}, finished |-> <<>>, executed |-> {}, pending |-> "none",
   usageBefore |-> EmptyDay(StartDate), publishedBefore |-> 0,
   sentBefore |-> 0]

\* saveThread keeps the last 80 messages of a thread of more than 100
TrimAbove == 100
TrimKeep == 80

\* The conversation file earlier turns left: none, one below the trim
\* threshold, one as the trim left it, one that was trimmed and has
\* grown to the threshold in four turns since
ThreadFiles ==
  {[count |-> 0, summary |-> FALSE, tail |-> <<>>, systems |-> 0],
   [count |-> TrimAbove - 4, summary |-> FALSE, tail |-> <<>>, systems |-> 0],
   [count |-> TrimKeep, summary |-> TRUE, tail |-> <<>>, systems |-> 0],
   [count |-> TrimAbove, summary |-> TRUE, tail |-> <<>>, systems |-> 4]}

\* thread.messages.slice(-80): the system messages are the first of the
\* thread, so the slice drops them before any other
SystemsKept(t) ==
  IF t.systems > t.old + Len(t.added) - TrimKeep
  THEN t.systems - (t.old + Len(t.added) - TrimKeep)
  ELSE 0

\* saveThread(thread): what is written
SaveThread(t) ==
  IF t.old + Len(t.added) > TrimAbove
  THEN [count |-> TrimKeep, summary |-> TRUE,
        tail |-> KeepLast(t.added, TrimKeep), systems |-> SystemsKept(t)]
  ELSE [count |-> t.old + Len(t.added), summary |-> t.summary,
        tail |-> t.added, systems |-> t.systems]

UnderCapLoose(iterations) == iterations <= MaxToolCallsPerMessage

\* while (iterations < maxIterations)
UnderCap(iterations) == iterations < MaxToolCallsPerMessage

\* The while loop of processMessage from its head to the next await:
\* callLLM, or saveThread with the budget or the max-iterations notice
LoopHead(t) ==
  IF UnderCap(t.iterations)
  THEN IF ~CanMakeCall
       THEN [t EXCEPT !.iterations = @ + 1,
                      !.added = Append(@, AssistantText(BudgetLimit)),
                      !.pc = "save", !.pending = BudgetLimit]
       ELSE [t EXCEPT !.iterations = @ + 1, !.llmCalls = @ + 1,
                      !.pc = "llm"]
  ELSE [t EXCEPT !.added = Append(@, AssistantText(MaxIterationsNotice)),
                 !.pc = "save", !.pending = MaxIterationsNotice]

\* The turn's function begins: the counts of this turn start from what
\* is there
NewTurn(mode) ==
  [IdleTurn EXCEPT !.mode = mode, !.usageBefore = todayUsage,
                   !.publishedBefore = Len(published),
                   !.sentBefore = Len(outbox)]

\* The turn's function returns value
Ended(t, value) ==
  /\ turn' = [t EXCEPT !.pc = "done"]
  /\ turnReply' = value

\* processMessage(message) up to its first await that leaves it:
\* handleChatCommand, the budget check, loadThread
TurnBegin ==
  /\ turn.pc = "idle"
  /\ \E text \in Texts :
       LET trimmed == Trimmed(text)
           cmd == Command(trimmed)
           t == [NewTurn("message") EXCEPT !.text = text]
       IN CASE cmd \in {"approve", "reject"} ->
                 IF pendingApproval /\ trimmed.arg = ApprovalPrefix
                 THEN /\ pendingApproval' = FALSE
                      /\ turn' = [t EXCEPT
                           !.pc = "resolve",
                           !.pending = IF cmd = "approve" THEN "Approved:"
                                       ELSE "Rejected:"]
                      /\ UNCHANGED turnReply
                 ELSE /\ Ended(t, "No pending approval matching")
                      /\ UNCHANGED pendingApproval
            [] cmd = "pending" ->
                 Ended(t, "pending approvals") /\ UNCHANGED pendingApproval
            [] cmd = "tasks" ->
                 Ended(t, "tasks") /\ UNCHANGED pendingApproval
            [] cmd = "cost" ->
                 Ended(t, "Today:") /\ UNCHANGED pendingApproval
            [] OTHER ->
                 /\ IF ~CanMakeCall
                    THEN Ended(t, BudgetExceeded)
                    ELSE turn' = [t EXCEPT !.pc = "load"] /\ UNCHANGED turnReply
                 /\ UNCHANGED pendingApproval
  /\ UNCHANGED <<threadFile, checklist, published, outbox, todayUsage>>

\* resolveApproval has returned to handleChatCommand
TurnResolved ==
  /\ turn.pc = "resolve"
  /\ Ended(turn, turn.pending)
  /\ UNCHANGED <<threadFile, pendingApproval, checklist, published, outbox,
                 todayUsage>>

\* loadThread and buildSystemPrompt have returned: the summary turn is
\* put in front, the user turn is pushed, the loop is entered
TurnLoaded ==
  /\ turn.pc = "load"
  /\ turn' = LoopHead([turn EXCEPT
        !.loads = @ + 1,
        !.old = threadFile.count + (IF threadFile.summary THEN 1 ELSE 0),
        !.summary = threadFile.summary,
        !.systems = threadFile.systems + (IF threadFile.summary THEN 1 ELSE 0),
        !.added = <<UserText>>])
  /\ UNCHANGED <<threadFile, pendingApproval, checklist, published, outbox,
                 turnReply, todayUsage>>

\* if (response.usage) await trackUsage(...): today's record afterwards,
\* begun anew when the record is of another date
Tracked(usage) ==
  IF usage
  THEN AddCall(IF todayUsage.date # today THEN EmptyDay(today) ELSE todayUsage,
               AgentModel, ResponseUsage[1], ResponseUsage[2])
  ELSE todayUsage

\* What callLLM answers in a turn of the given mode
Responses(mode) ==
  [n : 0..MaxSessTools,
   content : CASE mode = "message" -> {"text"}
               [] mode = "heartbeat" ->
                    {"text", "", "HEARTBEAT_OK", " HEARTBEAT_OK "}
               [] OTHER -> {"text", ""},
   usage : BOOLEAN]

\* The response as the turn keeps it
Received(t, response) ==
  [t EXCEPT !.response = response,
            !.first = IF t.llmCalls = 1 THEN response ELSE @]

\* callLLM of processMessage has returned and the usage is tracked:
\* without tool calls the text is pushed and the thread saved, otherwise
\* the tool_use turn is pushed and every call is handed to executeTool
TurnResponse ==
  /\ turn.mode = "message"
  /\ turn.pc = "llm"
  /\ \E response \in Responses("message") :
       /\ todayUsage' = Tracked(response.usage)
       /\ turn' =
            IF response.n = 0
            THEN [Received(turn, response) EXCEPT
                    !.added = Append(@, AssistantText(response.content)),
                    !.pc = "save", !.pending = response.content,
                    !.finished = <<>>]
            ELSE [Received(turn, response) EXCEPT
                    !.added = Append(@, AssistantToolUse(turn.iterations,
                                                         response.n)),
                    !.pc = "tools", !.running = 1..response.n,
                    !.finished = <<>>,
                    !.executed = @ \cup {<<turn.iterations, i>> :
                                           i \in 1..response.n}]
  /\ UNCHANGED <<threadFile, pendingApproval, checklist, published, outbox,
                 turnReply>>

\* One executeTool promise of the Promise.all settles with its result
ToolSettled ==
  /\ turn.pc = "tools"
  /\ \E i \in turn.running :
       turn' = [turn EXCEPT !.running = @ \ {i},
                            !.finished = Append(@, i)]
  /\ UNCHANGED <<threadFile, pendingApproval, checklist, published, outbox,
                 turnReply, todayUsage>>

\* The results in the order the promises settled
ResultsInFinishOrder(t) ==
  [k \in 1..t.response.n |-> ToolTurn(<<t.iterations, t.finished[k]>>)]

\* const results = await Promise.all(...): the results in the order of
\* response.toolCalls
Results(t) ==
  [i \in 1..t.response.n |-> ToolTurn(<<t.iterations, i>>)]

\* Promise.all has resolved: the results are pushed and the loop goes on
TurnToolsDone ==
  /\ turn.pc = "tools"
  /\ turn.running = {}
  /\ turn' = LoopHead([turn EXCEPT !.added = @ \o Results(turn)])
  /\ UNCHANGED <<threadFile, pendingApproval, checklist, published, outbox,
                 turnReply, todayUsage>>

\* saveThread has written the file and processMessage returns
TurnSaved ==
  /\ turn.pc = "save"
  /\ threadFile' = SaveThread(turn)
  /\ Ended([turn EXCEPT !.saves = @ + 1, !.finished = <<>>], turn.pending)
  /\ UNCHANGED <<pendingApproval, checklist, published, outbox, todayUsage>>

\* The awaited call rejects (persistApproval, loadThread, callLLM,
\* executeTool, saveThread): the turn's function throws and its locals
\* are gone
TurnRaises ==
  /\ turn.pc \in {"resolve", "load", "llm", "tools", "save"}
  /\ Ended([IdleTurn EXCEPT !.mode = turn.mode, !.text = turn.text,
                            !.usageBefore = turn.usageBefore,
                            !.publishedBefore = turn.publishedBefore,
                            !.sentBefore = turn.sentBefore],
           "raised")
  /\ UNCHANGED <<threadFile, pendingApproval, checklist, published, outbox,
                 todayUsage>>

\* A line of HEARTBEAT.md: "- [ ] ..." , "- [x] ..." or any other line
ChecklistLines ==
  {[box |-> " ", text |-> "reminders"], [box |-> "x", text |-> "inbox"],
   [box |-> "none", text |-> "# Heartbeat Checklist"]}

\* The default content written when the file cannot be read
DefaultChecklist ==
  << [box |-> "none", text |-> "# Heartbeat Checklist"],
     [box |-> " ", text |-> "reminders"],
     [box |-> " ", text |-> "queued tasks"],
     [box |-> " ", text |-> "unread messages"] >>

HeartbeatFiles ==
  {[missing |-> TRUE, lines |-> <<>>]} \cup
  [missing : {FALSE},
   lines : UNION {[1..n -> ChecklistLines] : n \in 0..MaxLines}]

RECURSIVE ParseHeartbeatMd(_)
\* One task for every line that matches /^- \[([ x])\]\s+(.+)$/,
\* enabled when its box is unchecked
ParseHeartbeatMd(lines) ==
  IF lines = <<>> THEN <<>>
  ELSE LET line == Head(lines)
       IN (IF line.box \in {" ", "x"}
           THEN <<[description |-> line.text, enabled |-> line.box = " "]>>
           ELSE <<>>) \o ParseHeartbeatMd(Tail(lines))

\* loadHeartbeatTasks()
LoadHeartbeatTasks(file) ==
  ParseHeartbeatMd(IF file.missing THEN DefaultChecklist ELSE file.lines)

IsEnabled(task) == task.enabled

AllTasks(list) == list

\* tasks.filter(t => t.enabled)
ActiveTasks(list) == SelectSeq(list, IsEnabled)

\* response.content.trim()
TrimContent(content) ==
  IF content = " HEARTBEAT_OK " THEN "HEARTBEAT_OK" ELSE content

\* if (reply) await sendMessage(...): null and '' are not sent
Sent(value) ==
  IF value \notin {"null", ""} THEN Append(outbox, value) ELSE outbox

\* The heartbeat tick: onHeartbeat reads the checklist and emits the
\* event with the enabled tasks; handleHeartbeat calls processHeartbeat,
\* which stops at the budget check or calls the LLM
OnHeartbeat ==
  /\ turn.pc = "idle"
  /\ \E file \in HeartbeatFiles :
       LET activeTasks == ActiveTasks(LoadHeartbeatTasks(file))
           t == NewTurn("heartbeat")
       IN /\ checklist' = file
          /\ IF activeTasks = <<>>
             THEN Ended(t, "none") /\ UNCHANGED published
             ELSE /\ published' = Append(published, activeTasks)
                  /\ IF ~CanMakeCall
                     THEN Ended(t, "null")
                     ELSE /\ turn' = [t EXCEPT !.pc = "llm", !.llmCalls = 1]
                          /\ UNCHANGED turnReply
  /\ UNCHANGED <<threadFile, pendingApproval, outbox, todayUsage>>

\* callLLM of processHeartbeat has returned: the usage is tracked, the
\* content is the reply unless it is HEARTBEAT_OK, and handleHeartbeat
\* sends the reply
HeartbeatResponse ==
  /\ turn.mode = "heartbeat"
  /\ turn.pc = "llm"
  /\ \E response \in Responses("heartbeat") :
       LET value == IF TrimContent(response.content) = "HEARTBEAT_OK"
                    THEN "null" ELSE response.content
       IN /\ todayUsage' = Tracked(response.usage)
          /\ outbox' = Sent(value)
          /\ Ended(Received(turn, response), value)
  /\ UNCHANGED <<threadFile, pendingApproval, checklist, published>>

\* A trigger fires: handleTrigger sends the configured message, or for
\* a task action calls processTrigger, which stops at the budget check
\* or calls the LLM
TriggerFired ==
  /\ turn.pc = "idle"
  /\ \E actionType \in {"message", "task"} :
       LET t == NewTurn("trigger")
       IN IF actionType = "message"
          THEN /\ outbox' = Append(outbox, "Trigger:")
               /\ Ended(t, "none")
          ELSE /\ IF ~CanMakeCall
                  THEN Ended(t, "null")
                  ELSE /\ turn' = [t EXCEPT !.pc = "llm", !.llmCalls = 1]
                       /\ UNCHANGED turnReply
               /\ UNCHANGED outbox
  /\ UNCHANGED <<threadFile, pendingApproval, checklist, published,
                 todayUsage>>

\* callLLM of processTrigger has returned: the usage is tracked, the
\* content is the reply, and handleTrigger sends it
TriggerResponse ==
  /\ turn.mode = "trigger"
  /\ turn.pc = "llm"
  /\ \E response \in Responses("trigger") :
       /\ todayUsage' = Tracked(response.usage)
       /\ outbox' = Sent(response.content)
       /\ Ended(Received(turn, response), response.content)
  /\ UNCHANGED <<threadFile, pendingApproval, checklist, published>>

SessStart ==
  /\ turn = IdleTurn
  /\ threadFile \in ThreadFiles
  /\ pendingApproval \in BOOLEAN
  /\ checklist = [missing |-> TRUE, lines |-> <<>>]
  /\ published = <<>>
  /\ outbox = <<>>
  /\ turnReply = "none"

SessRest ==
  /\ turn = IdleTurn
  /\ threadFile = [count |-> 0, summary |-> FALSE, tail |-> <<>>, systems |-> 0]
  /\ pendingApproval = FALSE
  /\ checklist = [missing |-> TRUE, lines |-> <<>>]
  /\ published = <<>>
  /\ outbox = <<>>
  /\ turnReply = "none"

\* ------------------------------------------------------------------
\* Event triggers (src/src/types.ts, the trigger engine): the triggers
\* map, the sources that fire them and the shared webhook server.
\* Every config is one that starts: a watchable path, a valid cron
\* expression, an icalUrl.  triggers.json is not followed: every
\* saveTriggers is taken to write the map as it stands, and a restart
\* reads that map back.
\* ------------------------------------------------------------------
MaxTriggers == 2

MaxFires == 1

TriggerIds == 1..MaxTriggers

TriggerTypes == {"file_watch", "webhook", "cron", "calendar", "email_watch"}

\* config.path of a webhook trigger ("" when not configured) and the
\* paths a request can name
\* `/${t.id.slice(0, 8)}`
IdPath(id) == <<"/id1", "/id2", "/id3", "/id4">>[id]

RequestPaths == {"/hook", "/other"} \cup {IdPath(id) : id \in TriggerIds}

\* What a request carries in x-webhook-secret or x-hub-signature-256
\* ("" when neither is sent); config.secret is "s" or not configured ("")
Signatures == {"", "s", "x"}

NoTrigger ==
  [type |-> "none", enabled |-> FALSE, path |-> "", secret |-> "",
   triggerCount |-> 0]

\* The configs createTrigger is called with: path and secret matter to
\* webhook triggers only
TriggerParams ==
  {[type |-> "webhook", path |-> "/hook", secret |-> "s"],
   [type |-> "webhook", path |-> "", secret |-> ""]} \cup
  [type : TriggerTypes \ {"webhook"}, path : {""}, secret : {""}]

\* (t.config.path as string) || `/${t.id.slice(0, 8)}`
HookPath(id, def) == IF def.path # "" THEN def.path ELSE IdPath(id)

NoHandlers == [p \in RequestPaths |-> 0]

\* The registration loop of ensureWebhookServer over triggers.values()
RECURSIVE Registered(_, _, _)
Registered(order, objs, handlers) ==
  IF order = <<>> THEN handlers
  ELSE LET id == Head(order)
           def == objs[id]
       IN  Registered(Tail(order), objs,
             IF def.type = "webhook" /\ def.enabled
             THEN [handlers EXCEPT ![HookPath(id, def)] = id]
             ELSE handlers)

\* ensureWebhookServer: what webhookHandlers holds after the call
EnsureWebhookServer(order, objs) ==
  IF webhookServer THEN webhookHandlers
  ELSE Registered(order, objs, webhookHandlers)

\* The request in flight and the status of the last response; status 0
\* stands for a request that got no response
NoRequest == [pc |-> "idle", sig |-> "", trigger |-> 0, status |-> 0]

Remove(order, id) == SelectSeq(order, LAMBDA other : other # id)

\* startTrigger(trigger): the switch on trigger.type
StartTrigger(id, order, objs) ==
  LET type == objs[id].type
  IN  /\ fileWatchers' =
           IF type = "file_watch" THEN fileWatchers \cup {id} ELSE fileWatchers
      /\ cronJobs' =
           IF type \in {"cron", "calendar", "email_watch"}
           THEN cronJobs \cup {id} ELSE cronJobs
      /\ intervals' =
           IF type \in {"calendar", "email_watch"}
           THEN intervals \cup {id} ELSE intervals
      /\ webhookHandlers' =
           IF type = "webhook" THEN EnsureWebhookServer(order, objs)
           ELSE webhookHandlers
      /\ webhookServer' = (webhookServer \/ type = "webhook")

\* stopTrigger(trigger): the switch on trigger.type
StopTrigger(id, type) ==
  /\ fileWatchers' =
       IF type = "file_watch" THEN fileWatchers \ {id} ELSE fileWatchers
  /\ cronJobs' = IF type = "cron" THEN cronJobs \ {id} ELSE cronJobs
  /\ UNCHANGED <<intervals, webhookHandlers, webhookServer>>

TrigStart ==
  /\ triggers = <<>>
  /\ triggerObjs = [id \in TriggerIds |-> NoTrigger]
  /\ nextTrigger = 1
  /\ webhookServer = FALSE
  /\ webhookHandlers = NoHandlers
  /\ fileWatchers = {}
  /\ cronJobs = {}
  /\ intervals = {}
  /\ firing = 0
  /\ emitted = [id \in TriggerIds |-> 0]
  /\ request = NoRequest

TrigRest == TrigStart

InMap(id) == \E i \in 1..Len(triggers) : triggers[i] = id

\* createTrigger
CreateTrigger(params) ==
  /\ nextTrigger \in TriggerIds
  /\ LET id == nextTrigger
         def == [type |-> params.type, enabled |-> TRUE,
                 path |-> params.path, secret |-> params.secret,
                 triggerCount |-> 0]
         order == Append(triggers, id)
         objs == [triggerObjs EXCEPT ![id] = def]
     IN  /\ triggers' = order
         /\ triggerObjs' = objs
         /\ StartTrigger(id, order, objs)
  /\ nextTrigger' = nextTrigger + 1
  /\ UNCHANGED <<firing, emitted, request>>

\* toggleTrigger(id, enabled) on an id of the map
ToggleTrigger(id, enabled) ==
  /\ InMap(id)
  /\ LET def == triggerObjs[id]
         objs == [triggerObjs EXCEPT ![id].enabled = enabled]
     IN  /\ triggerObjs' = objs
         /\ IF enabled /\ ~def.enabled THEN StartTrigger(id, triggers, objs)
            ELSE IF ~enabled /\ def.enabled THEN StopTrigger(id, def.type)
            ELSE UNCHANGED <<fileWatchers, cronJobs, intervals,
                             webhookHandlers, webhookServer>>
  /\ UNCHANGED <<triggers, nextTrigger, firing, emitted, request>>

\* deleteTrigger(id) on an id of the map
DeleteTrigger(id) ==
  /\ InMap(id)
  /\ StopTrigger(id, triggerObjs[id].type)
  /\ triggers' = Remove(triggers, id)
  /\ UNCHANGED <<triggerObjs, nextTrigger, firing, emitted, request>>

\* fireTrigger(trigger) up to its await of saveTriggers
FireTrigger(id) ==
  /\ firing = 0
  /\ triggerObjs[id].triggerCount < MaxFires
  /\ triggerObjs' = [triggerObjs EXCEPT ![id].triggerCount = @ + 1]
  /\ firing' = id

\* The callback of fs.watch
FileWatchEvent(id) ==
  /\ id \in fileWatchers
  /\ FireTrigger(id)
  /\ UNCHANGED <<triggers, nextTrigger, webhookServer, webhookHandlers,
                 fileWatchers, cronJobs, intervals, emitted, request>>

\* The callback of cron.schedule
CronJobTick(id) ==
  /\ id \in cronJobs
  /\ triggerObjs[id].type = "cron"
  /\ FireTrigger(id)
  /\ UNCHANGED <<triggers, nextTrigger, webhookServer, webhookHandlers,
                 fileWatchers, cronJobs, intervals, emitted, request>>

\* poll() of startCalendarPoll and startEmailPoll finds an event or a
\* message that passes its filters
PollFound(id) ==
  /\ id \in intervals
  /\ FireTrigger(id)
  /\ UNCHANGED <<triggers, nextTrigger, webhookServer, webhookHandlers,
                 fileWatchers, cronJobs, intervals, emitted, request>>

\* The request handler of the webhook server up to its reading of the body
WebhookRequest(path, sig) ==
  /\ webhookServer
  /\ request.pc = "idle"
  /\ LET id == webhookHandlers[path]
     IN  request' =
           IF id = 0
           THEN [pc |-> "idle", sig |-> "", trigger |-> 0, status |-> 404]
           ELSE [pc |-> "body", sig |-> sig, trigger |-> id, status |-> 0]
  /\ UNCHANGED <<triggers, triggerObjs, nextTrigger, webhookServer,
                 webhookHandlers, fileWatchers, cronJobs, intervals, firing,
                 emitted>>

\* The handler after the body: the secret check, then fireTrigger
WebhookBody ==
  /\ request.pc = "body"
  /\ LET id == request.trigger
         secret == triggerObjs[id].secret
     IN  IF secret # "" /\ request.sig # secret
         THEN /\ request' = [NoRequest EXCEPT !.status = 401]
              /\ UNCHANGED <<triggerObjs, firing>>
         ELSE /\ FireTrigger(id)
              /\ request' = [request EXCEPT !.pc = "fire"]
  /\ UNCHANGED <<triggers, nextTrigger, webhookServer, webhookHandlers,
                 fileWatchers, cronJobs, intervals, emitted>>

\* fireTrigger after saveTriggers: audit, then the trigger_fired event,
\* unless the write of either was rejected; the webhook handler that
\* awaited it answers 200 or is rejected with it
FireSettled ==
  /\ firing # 0
  /\ \E done \in BOOLEAN :
       /\ emitted' = IF done THEN [emitted EXCEPT ![firing] = @ + 1]
                     ELSE emitted
       /\ request' =
            IF request.pc = "fire"
            THEN [NoRequest EXCEPT !.status = IF done THEN 200 ELSE 0]
            ELSE request
  /\ firing' = 0
  /\ UNCHANGED <<triggers, triggerObjs, nextTrigger, webhookServer,
                 webhookHandlers, fileWatchers, cronJobs, intervals>>

\* The process is started again: initTriggers reads triggers.json and
\* starts every enabled trigger
InitTriggers ==
  /\ request.pc = "idle"
  /\ firing = 0
  /\ LET objs == [id \in TriggerIds |->
                   IF InMap(id) THEN triggerObjs[id] ELSE NoTrigger]
         on(type) == {id \in TriggerIds : objs[id].enabled /\ objs[id].type \in type}
     IN  /\ triggerObjs' = objs
         /\ fileWatchers' = on({"file_watch"})
         /\ cronJobs' = on({"cron", "calendar", "email_watch"})
         /\ intervals' = on({"calendar", "email_watch"})
         /\ webhookServer' = (on({"webhook"}) # {})
         /\ webhookHandlers' =
              IF on({"webhook"}) # {} THEN Registered(triggers, objs, NoHandlers)
              ELSE NoHandlers
  /\ request' = NoRequest
  /\ UNCHANGED <<triggers, nextTrigger, firing, emitted>>

\* ------------------------------------------------------------------
\* Audit log files (src/unnamed/part_005: initAuditLog, audit), with
\* the calendar date of new Date() changing while the process runs
\* ------------------------------------------------------------------
MaxAuditEntries == 3

\* event.action of the entries
AuditActions == {"tool_call", "trigger_fired"}

NoHandle == 0

NoLogEntry == [timestamp |-> 0, action |-> "", file |-> 0]

\* new Date().toISOString().slice(0, 10) of an entry's timestamp
EntryDate(entry) == entry.timestamp

\* logs/audit-<date>.jsonl of the handle initAuditLog opened
LogStart ==
  /\ logDate = StartDate
  /\ logHandle = NoHandle
  /\ logFiles = [d \in Dates |-> <<>>]
  /\ logEntry = NoLogEntry
  /\ logWritten = 0

LogRest == LogStart

\* initAuditLog at the start of the process: the file named after the
\* date of the start is opened for appending
InitAuditLog ==
  /\ logEntry = NoLogEntry
  /\ logHandle' = logDate
  /\ UNCHANGED <<logDate, logFiles, logEntry, logWritten>>

\* audit(event) up to its await of auditStream.write
Audit(action) ==
  /\ logEntry = NoLogEntry
  /\ logHandle # NoHandle
  /\ logWritten < MaxAuditEntries
  /\ logEntry' = [timestamp |-> logDate, action |-> action, file |-> logHandle]
  /\ UNCHANGED <<logDate, logHandle, logFiles, logWritten>>

\* auditStream.write settles: the line is appended to the file of the
\* handle, or the write is rejected
AuditAppended ==
  /\ logEntry # NoLogEntry
  /\ \E written \in BOOLEAN :
       /\ logFiles' =
            IF written
            THEN [logFiles EXCEPT
                    ![logEntry.file] =
                      Append(@, [timestamp |-> logEntry.timestamp,
                                 action |-> logEntry.action])]
            ELSE logFiles
       /\ logWritten' = logWritten + 1
  /\ logEntry' = NoLogEntry
  /\ UNCHANGED <<logDate, logHandle>>

\* The calendar date changes
LogDateChange ==
  /\ logDate + 1 \in Dates
  /\ logDate' = logDate + 1
  /\ UNCHANGED <<logHandle, logFiles, logEntry, logWritten>>

\* GET /api/audit?date=: the entries of the file of that date
AuditOf(date) == logFiles[date]

\* ------------------------------------------------------------------
\* Thread store (src/src/memory/store.ts: saveThread,
\* summarizeMessages) on threads with their messages.  A message is
\* its role, the length of its content and the position it was
\* appended at; a summary is its length and the position of the last
\* message folded into it.
\* ------------------------------------------------------------------
MaxOver == 2

MaxAppends == 1

SummaryCap == 2000

KeptTopics == 10

\* The lengths of 'Previous context: ', of 'Recent topics: ', of ' | '
\* and of the newline that joins the two parts
PreviousContextLen == 18

RecentTopicsLen == 15

TopicSeparatorLen == 3

PartSeparatorLen == 1

\* thread.messages.length of the threads saveThread is given
MessageCounts ==
  {0, TrimKeep, TrimAbove - 1} \cup TrimAbove..(TrimAbove + MaxOver)

\* The roles of the messages, repeating along the thread
RolePatterns ==
  {<<"user", "assistant">>, <<"user", "assistant", "tool", "assistant">>,
   <<"assistant">>}

ContentLens == {3, 400}

NoSummary == [len |-> 0, upto |-> 0]

\* thread.summary as earlier saves left it
Summaries == {NoSummary, [len |-> 40, upto |-> 0], [len |-> SummaryCap, upto |-> 0]}

MessageAt(i, pattern, len) ==
  [role |-> pattern[((i - 1) % Len(pattern)) + 1], len |-> len, seq |-> i]

Threads ==
  {[messages |-> [i \in 1..n |-> MessageAt(i, pattern, len)],
    summary |-> summary] :
     n \in MessageCounts, pattern \in RolePatterns, len \in ContentLens,
     summary \in Summaries}

\* messages.filter(m => m.role === 'user')
UserMessages(messages) == SelectSeq(messages, LAMBDA m : m.role = "user")

\* userMessages.join(' | ').length
RECURSIVE JoinedLen(_)
JoinedLen(messages) ==
  IF messages = <<>> THEN 0
  ELSE IF Len(messages) = 1 THEN messages[1].len
  ELSE messages[1].len + TopicSeparatorLen + JoinedLen(Tail(messages))

SliceUncut(len) == len

\* summary.slice(0, 2000)
Slice(len) == Min(len, SummaryCap)

\* summarizeMessages(messages, existingSummary)
SummarizeMessages(messages, existing) ==
  LET topics == KeepLast(UserMessages(messages), KeptTopics)
      previous == IF existing.len > 0
                  THEN PreviousContextLen + existing.len + PartSeparatorLen
                  ELSE 0
  IN  [len |-> Slice(previous + RecentTopicsLen + JoinedLen(topics)),
       upto |-> IF messages = <<>> THEN existing.upto
                ELSE messages[Len(messages)].seq]

\* saveThread(thread) from the trim to the call of writeFile: the thread
\* as it is then, in memory and in the JSON handed to writeFile
Trim(thread) ==
  IF Len(thread.messages) > TrimAbove
  THEN [messages |-> KeepLast(thread.messages, TrimKeep),
        summary |-> SummarizeMessages(
                      SubSeq(thread.messages, 1, Len(thread.messages) - TrimKeep),
                      thread.summary)]
  ELSE thread

NoThread == [messages |-> <<>>, summary |-> NoSummary]

ThrStart ==
  /\ thr \in Threads
  /\ thrFile = NoThread
  /\ thrCall = [pc |-> "idle", before |-> NoThread, saves |-> 0]
  /\ thrAppends = 0

ThrRest ==
  /\ thr = NoThread
  /\ thrFile = NoThread
  /\ thrCall = [pc |-> "idle", before |-> NoThread, saves |-> 0]
  /\ thrAppends = 0

\* saveThread(thread) up to its await of ensureDirs
SaveThreadBegin ==
  /\ thrCall.pc \in {"idle", "written", "rejected"}
  /\ thrCall.saves < MaxAppends + 1
  /\ thrCall' = [pc |-> "dirs", before |-> thr, saves |-> thrCall.saves + 1]
  /\ UNCHANGED <<thr, thrFile, thrAppends>>

\* ensureDirs has settled: the trim, then writeFile is called
SaveThreadTrim ==
  /\ thrCall.pc = "dirs"
  /\ \E made \in BOOLEAN :
       IF made
       THEN /\ thr' = Trim(thr)
            /\ thrCall' = [thrCall EXCEPT !.pc = "write"]
       ELSE /\ thrCall' = [thrCall EXCEPT !.pc = "rejected"]
            /\ UNCHANGED thr
  /\ UNCHANGED <<thrFile, thrAppends>>

\* writeFile has settled: the file holds the thread, or the call is
\* rejected
SaveThreadWritten ==
  /\ thrCall.pc = "write"
  /\ \E written \in BOOLEAN :
       /\ thrFile' = IF written THEN thr ELSE thrFile
       /\ thrCall' = [thrCall EXCEPT
                        !.pc = IF written THEN "written" ELSE "rejected"]
  /\ UNCHANGED <<thr, thrAppends>>

\* thread.messages.push(...) of a turn between two saves
PushMessage(role, len) ==
  /\ thrCall.pc \in {"idle", "written", "rejected"}
  /\ thrAppends < MaxAppends
  /\ LET last == IF thr.messages = <<>> THEN thr.summary.upto
                 ELSE thr.messages[Len(thr.messages)].seq
     IN  thr' = [thr EXCEPT
                   !.messages = Append(@, [role |-> role, len |-> len,
                                           seq |-> last + 1])]
  /\ thrAppends' = thrAppends + 1
  /\ thrCall' = [thrCall EXCEPT !.pc = "idle"]
  /\ UNCHANGED thrFile

\* ------------------------------------------------------------------
\* /approve and /reject of the chat (src/src/gateway/agent.ts,
\* handleChatCommand; src/src/tasks/costs.ts, the approvals of several
\* users).  The file of each request and the waiter it wakes are the
\* approval broker's section above; here the map holds requests of
\* several users, each with its uuid and its creation time.
\* ------------------------------------------------------------------
MaxRequests == 3

\* The uuids randomUUID yields, two hex digits of each, in the order of
\* the calls
Uuids == << <<"a", "a">>, <<"a", "b">>, <<"a", "c">>, <<"b", "a">> >>

ApprovalUuids == {Uuids[i] : i \in 1..Len(Uuids)}

Users == {"u1", "u2"}

\* getPendingApprovals() of the dashboard passes no user
NoUser == ""

Decisions == {"approved", "rejected"}

\* What the user types after /approve or /reject
TypedPrefixes == {<<"A">>, <<"a", "b">>, <<"f">>}

NoMatch == <<>>

NoUserApproval ==
  [status |-> "none", userId |-> NoUser, createdAt |-> 0,
   resolvedBy |-> "unset"]

NoChatCommand == [pc |-> "idle", match |-> NoMatch, reply |-> "none"]

\* String.prototype.toLowerCase on the letters of the model
LowerChar(c) == IF c = "A" THEN "a" ELSE IF c = "B" THEN "b" ELSE c

ToLowerCase(s) == [i \in 1..Len(s) |-> LowerChar(s[i])]

StartsWith(s, prefix) ==
  /\ Len(prefix) <= Len(s)
  /\ SubSeq(s, 1, Len(prefix)) = prefix

\* The filter of getPendingApprovals when it forgets the user
PendingOfAnyone(userId) ==
  {id \in ApprovalUuids : userApprovals[id].status = "pending"}

\* The filter of getPendingApprovals:
\* a.status === 'pending' && (!userId || a.userId === userId)
PendingOf(userId) ==
  {id \in ApprovalUuids :
     /\ userApprovals[id].status = "pending"
     /\ (userId = NoUser \/ userApprovals[id].userId = userId)}

\* .sort((a, b) => b.createdAt.getTime() - a.createdAt.getTime())
RECURSIVE NewestFirst(_)
NewestFirst(S) ==
  IF S = {} THEN <<>>
  ELSE LET newest == CHOOSE id \in S :
                       \A o \in S : userApprovals[o].createdAt
                                      <= userApprovals[id].createdAt
       IN  <<newest>> \o NewestFirst(S \ {newest})

\* getPendingApprovals(userId): the filtered requests, newest first
GetPendingApprovals(userId) == NewestFirst(PendingOf(userId))

\* pending.find(a => a.id.toLowerCase().startsWith(prefix))
FindMatch(pending, prefix) ==
  LET hits == {i \in 1..Len(pending) :
                 StartsWith(ToLowerCase(pending[i]), prefix)}
  IN  IF hits = {} THEN NoMatch
      ELSE pending[CHOOSE i \in hits : \A j \in hits : i <= j]

ChatRest ==
  /\ userApprovals = [id \in ApprovalUuids |-> NoUserApproval]
  /\ requestClock = 1
  /\ chatCommand = NoChatCommand

\* requestApproval for a step of a task of the user: the request gets a
\* fresh uuid and enters the map as pending
RequestApprovalOf(userId) ==
  /\ requestClock <= MaxRequests
  /\ requestClock <= Len(Uuids)
  /\ userApprovals' = [userApprovals EXCEPT ![Uuids[requestClock]] =
                         [status |-> "pending", userId |-> userId,
                          createdAt |-> requestClock,
                          resolvedBy |-> "unset"]]
  /\ requestClock' = requestClock + 1
  /\ UNCHANGED chatCommand

\* The timer of a request: a request still pending expires
ExpireApproval(id) ==
  /\ userApprovals[id].status = "pending"
  /\ userApprovals' = [userApprovals EXCEPT ![id].status = "expired"]
  /\ UNCHANGED <<requestClock, chatCommand>>

\* handleChatCommand on "/approve <typed>" or "/reject <typed>" of a
\* user, up to the await inside resolveApproval
HandleChatCommand(userId, decision, typed) ==
  /\ chatCommand.pc # "persist"
  /\ LET trimmed == ToLowerCase(typed)
         pending == GetPendingApprovals(userId)
         match == FindMatch(pending, trimmed)
     IN  IF match = NoMatch
         THEN /\ chatCommand' = [pc |-> "returned", match |-> NoMatch,
                                 reply |-> "No pending approval"]
              /\ UNCHANGED userApprovals
         ELSE /\ chatCommand' = [pc |-> "persist", match |-> match,
                                 reply |-> decision]
              /\ userApprovals' =
                   IF userApprovals[match].status = "pending"
                   THEN [userApprovals EXCEPT ![match].status = decision,
                                              ![match].resolvedBy = userId]
                   ELSE userApprovals
  /\ UNCHANGED requestClock

\* The rest of the command once persistApproval has settled: the reply,
\* or the rejection of the write thrown to processMessage
ChatCommandReturns ==
  /\ chatCommand.pc = "persist"
  /\ \E written \in BOOLEAN :
       chatCommand' = [chatCommand EXCEPT
                         !.pc = "returned",
                         !.reply = IF written THEN @ ELSE "threw"]
  /\ UNCHANGED <<userApprovals, requestClock>>

\* ------------------------------------------------------------------
\* Sections at rest
\* ------------------------------------------------------------------
ExtRest == TrigRest /\ LogRest /\ ThrRest /\ DelRest /\ ChatRest

AuxRest == PathRest /\ UrlRest /\ RateRest /\ RouteRest /\ SessRest /\ ExtRest

LoadRest ==
  /\ aqPc = "done"
  /\ aqNext = 1
  /\ approvalDisk0 = [f \in FileIds |-> NoFile]
  /\ approvalFiles = approvalDisk0
  /\ loadedApprovals = [f \in FileIds |-> NoFile]
  /\ loadClock = 1

ToolRest ==
  /\ toolCall = NoToolCall
  /\ sandboxEnabled = TRUE
  /\ effects = {}
  /\ auditStream = "open"
  /\ auditLog = <<>>
  /\ toolEvents = <<>>
  /\ toolResult = NoResult

\* The sections added to the kernel, at rest
RestStart == StoreStart /\ OrchStart /\ LoadRest /\ ToolRest /\ AuxRest

\* ------------------------------------------------------------------
\* Specifications.  Each one exercises one subsystem from the state the
\* process is in when that subsystem starts to act; the variables of the
\* other subsystems stay at rest.
\* ------------------------------------------------------------------
TaskStart ==
  /\ taskDisk \in [TaskIds -> TaskStatus \cup {"none", "corrupt"}]
  /\ taskDisk0 = taskDisk
  /\ tasks = [id \in TaskIds |-> "none"]
  /\ tqPc = "load"
  /\ tqNext = 1
  /\ interrupted = <<>>

TaskRest ==
  /\ taskDisk = [id \in TaskIds |-> "none"]
  /\ taskDisk0 = taskDisk
  /\ tasks = [id \in TaskIds |-> "none"]
  /\ tqPc = "done"
  /\ tqNext = 1
  /\ interrupted = <<>>

\* -- startup of the task queue
InitTaskQueueLoadStep ==
  InitTaskQueueLoad /\ UNCHANGED <<apprVars, costVars, setVars, restVars, workerVars>>

InitTaskQueueMarkStep ==
  InitTaskQueueMark /\ UNCHANGED <<apprVars, costVars, setVars, restVars, workerVars>>

TaskInit == TaskStart /\ ApprovalStart /\ CostRest /\ SettingsStart /\ WorkerStart /\ RestStart

TaskNext == InitTaskQueueLoadStep \/ InitTaskQueueMarkStep

SpecTasks == TaskInit /\ [][TaskNext]_vars

\* -- the approval broker with callers outside the model's workers
RequestApproval ==
  \E id \in ApprovalIds :
    /\ \A j \in ApprovalIds : j < id => approvals[j].status # "none"
    /\ RequestApprovalBegin(id)
    /\ UNCHANGED <<taskVars, costVars, setVars, restVars, workerVars>>

RequestApprovalReturn ==
  \E id \in ApprovalIds : RequestApprovalResume(id) /\ UNCHANGED <<taskVars, costVars, setVars, restVars, workerVars>>

\* /approve and /reject of the chat: handleChatCommand picks the request
\* among getPendingApprovals(userId) and resolves it as the user
ResolveApprovalByUser ==
  \E id \in ApprovalIds, decision \in {"approved", "rejected"} :
    /\ approvals[id].status = "pending"
    /\ ResolveApprovalBegin(id, decision, "user")
    /\ UNCHANGED <<taskVars, costVars, setVars, restVars, workerVars>>

ResolveApproval ==
  \E id \in ApprovalIds, decision \in {"approved", "rejected"},
     by \in Resolvers :
    ResolveApprovalBegin(id, decision, by) /\ UNCHANGED <<taskVars, costVars, setVars, restVars, workerVars>>

ResolveApprovalReturn ==
  \E id \in ApprovalIds : ResolveApprovalResume(id) /\ UNCHANGED <<taskVars, costVars, setVars, restVars, workerVars>>

ExpiryTimer ==
  \E id \in ApprovalIds : TimerFire(id) /\ UNCHANGED <<taskVars, costVars, setVars, restVars, workerVars>>

ExpiryTimerReturn ==
  \E id \in ApprovalIds : TimerResume(id) /\ UNCHANGED <<taskVars, costVars, setVars, restVars, workerVars>>

ApprovalInit == ApprovalStart /\ TaskRest /\ CostRest /\ SettingsStart /\ WorkerStart /\ RestStart

ApprovalNext ==
  \/ RequestApproval
  \/ RequestApprovalReturn
  \/ ResolveApproval
  \/ ResolveApprovalReturn
  \/ ExpiryTimer
  \/ ExpiryTimerReturn

SpecApproval == ApprovalInit /\ [][ApprovalNext]_vars

\* -- the cost tracker with concurrent trackUsage calls
TrackUsage ==
  \E c \in CallIds, model \in Models, tok \in TokenPairs :
    /\ \A j \in CallIds : j < c => tuCall[j].pc # "idle"
    /\ TrackUsageBegin(c, model, tok[1], tok[2])
    /\ UNCHANGED <<taskVars, apprVars, setVars, restVars, workerVars>>

SaveUsageReadStep ==
  \E c \in CallIds : SaveUsageRead(c) /\ UNCHANGED <<taskVars, apprVars, setVars, restVars, workerVars>>

SaveUsageWrittenStep ==
  \E c \in CallIds : SaveUsageWritten(c) /\ UNCHANGED <<taskVars, apprVars, setVars, restVars, workerVars>>

Midnight == DateChange /\ UNCHANGED <<taskVars, apprVars, setVars, restVars, workerVars>>

CostInit == CostStart /\ TaskRest /\ ApprovalStart /\ SettingsStart /\ WorkerStart /\ RestStart

CostNext ==
  \/ TrackUsage
  \/ SaveUsageReadStep
  \/ SaveUsageWrittenStep
  \/ Midnight

SpecCosts == CostInit /\ [][CostNext]_vars

\* -- the settings guard behind POST /api/settings
UpdateSettingsCall ==
  \E patch \in Patches, token \in ConfirmTokens :
    UpdateSettings(patch, token) /\ UNCHANGED <<taskVars, apprVars, costVars, workerVars, restVars>>

SettingsInit == SettingsStart /\ TaskRest /\ ApprovalStart /\ CostRest /\ WorkerStart /\ RestStart

SettingsNext == UpdateSettingsCall

SpecSettings == SettingsInit /\ [][SettingsNext]_vars

\* -- the workers, with the approval broker and the cost tracker
Levels == {"low", "medium", "high"}

\* The budget of a day: none, or a hard stop at the cost of one call
Budgets ==
  {NoBudget,
   [dailyBudget |-> CallCost(ResponseUsage[1], ResponseUsage[2]),
    hardStop |-> TRUE]}

RECURSIVE UsageAfter(_)
\* Today's record as initCostTracker finds it in costs.json when the
\* process had made `calls` calls on this day before it was restarted
UsageAfter(calls) ==
  IF calls = 0 THEN EmptyDay(StartDate)
  ELSE AddCall(UsageAfter(calls - 1), AgentModel, ResponseUsage[1],
               ResponseUsage[2])

\* After startup: the queue holds one task that create_task has created,
\* the autonomy level is one of `levels`, the budget one of `budgets` and
\* today's record holds one of `calls` calls.
WorkerBoot(levels, budgets, calls) ==
  /\ WorkerStart
  /\ RestStart
  /\ ApprovalStart
  /\ tasks = [id \in TaskIds |-> IF id = 1 THEN "pending" ELSE "none"]
  /\ taskDisk = tasks
  /\ taskDisk0 = tasks
  /\ tqPc = "done"
  /\ tqNext = 1
  /\ interrupted = <<>>
  /\ \E level \in levels :
       current = [Defaults EXCEPT !.autonomyLevel = level]
  /\ settingsFile = current
  /\ lastUpdate = NoUpdate
  /\ today = StartDate
  /\ costFile = <<>>
  /\ \E n \in calls : todayUsage = UsageAfter(n)
  /\ costConfig \in budgets
  /\ tuCall = [c \in CallIds |-> IdleCall]
  /\ counted = [d \in Dates |->
                 IF d = StartDate
                 THEN [calls |-> todayUsage.callCount,
                       inTok |-> todayUsage.inputTokens,
                       outTok |-> todayUsage.outputTokens]
                 ELSE [calls |-> 0, inTok |-> 0, outTok |-> 0]]

\* Workers under each autonomy level, without a budget
WorkerInit == WorkerBoot(Levels, {NoBudget}, {0})

\* Workers at the default autonomy level under each budget
BudgetInit == WorkerBoot({Defaults.autonomyLevel}, Budgets, 0..1)

WorkerNext ==
  \/ ProcessMessageBegin
  \/ ProcessMessageLoop
  \/ ProcessMessageResponse
  \/ ProcessMessageAct
  \/ ProcessMessageTools
  \/ ProcessHeartbeatBegin
  \/ ProcessHeartbeatResponse
  \/ ProcessHeartbeatAct
  \/ ProcessTriggerBegin
  \/ ProcessTriggerResponse
  \/ ProcessTriggerAct
  \/ PlanTask
  \/ PlanTaskResponse
  \/ ExecuteSubtaskLoop
  \/ ExecuteSubtaskResponse
  \/ ExecuteSubtaskTool
  \/ ExecuteSubtaskApproval
  \/ SynthesizeResultsResponse
  \/ RequestApprovalReturn
  \/ ResolveApprovalByUser
  \/ ResolveApprovalReturn
  \/ ExpiryTimer
  \/ ExpiryTimerReturn
  \/ SaveUsageReadStep
  \/ SaveUsageWrittenStep

SpecWorker == WorkerInit /\ [][WorkerNext]_vars

SpecBudget == BudgetInit /\ [][WorkerNext]_vars

\* -- the task store under the calls of its mutators, some of them in
\* flight together (workers of a parallel group, tools of one response)
CreatedPriorities == {"high", "normal"}

CreateTaskCall ==
  \E priority \in CreatedPriorities :
    CreateTask(priority) /\ UNCHANGED <<coreVars, auxVars, orchVars, loadVars, toolVars>>

\* ... and the first createTask of a process whose store is empty
CreateFirstTask ==
  /\ mapOrder = <<>>
  /\ CreateTask("normal")
  /\ UNCHANGED <<coreVars, auxVars, orchVars, loadVars, toolVars>>

\* The task_action tool: pause, resume and cancel set the status, note
\* appends to the scratchpad
TaskAction ==
  \E id \in StoreIds, action \in {"pause", "resume", "cancel", "note"} :
    /\ CASE action = "pause" ->
              Mutate(id, WithStatus(taskMap[id], "paused", NoProgress))
         [] action = "resume" ->
              Mutate(id, WithStatus(taskMap[id], "pending", NoProgress))
         [] action = "cancel" ->
              Mutate(id, WithStatus(taskMap[id], "cancelled", NoProgress))
         [] action = "note" ->
              /\ taskMap[id].scratchpad < MaxNotes
              /\ Mutate(id, WithNote(taskMap[id]))
    /\ UNCHANGED <<coreVars, auxVars, orchVars, loadVars, toolVars>>

UpdateTaskStatusCall ==
  \E id \in StoreIds, call \in StatusCalls :
    /\ Mutate(id, WithStatus(taskMap[id], call[1], call[2]))
    /\ UNCHANGED <<coreVars, auxVars, orchVars, loadVars, toolVars>>

AddTaskStepCall ==
  \E id \in StoreIds :
    /\ Len(taskMap[id].steps) < MaxSteps
    /\ Mutate(id, WithStep(taskMap[id]))
    /\ UNCHANGED <<coreVars, auxVars, orchVars, loadVars, toolVars>>

UpdateTaskStepCall ==
  \E id \in StoreIds, status \in StepStatus \ {"pending"} :
    \E i \in DOMAIN taskMap[id].steps :
      /\ Mutate(id, WithStepUpdate(taskMap[id], i, status))
      /\ UNCHANGED <<coreVars, auxVars, orchVars, loadVars, toolVars>>

AddUsageCall ==
  \E id \in StoreIds :
    /\ taskMap[id].usage < MaxNotes
    /\ Mutate(id, WithUsage(taskMap[id]))
    /\ UNCHANGED <<coreVars, auxVars, orchVars, loadVars, toolVars>>

AppendScratchpadCall ==
  \E id \in StoreIds :
    /\ taskMap[id].scratchpad < MaxNotes
    /\ Mutate(id, WithNote(taskMap[id]))
    /\ UNCHANGED <<coreVars, auxVars, orchVars, loadVars, toolVars>>

PersistTaskStringifyStep ==
  \E slot \in WriteSlots : PersistTaskStringify(slot) /\ UNCHANGED <<coreVars, auxVars, orchVars, loadVars, toolVars>>

PersistTaskWrittenStep ==
  \E slot \in WriteSlots : PersistTaskWritten(slot) /\ UNCHANGED <<coreVars, auxVars, orchVars, loadVars, toolVars>>

\* The process is stopped and started again
RestartStore == InitTaskQueue /\ UNCHANGED <<coreVars, auxVars, orchVars, loadVars, toolVars>>

KernelRest ==
  /\ AuxRest
  /\ TaskRest /\ ApprovalStart /\ CostRest /\ SettingsStart /\ WorkerStart

StoreInit == StoreStart /\ KernelRest /\ OrchStart /\ LoadRest /\ ToolRest

StoreNext ==
  \/ CreateFirstTask
  \/ UpdateTaskStatusCall
  \/ AddTaskStepCall
  \/ UpdateTaskStepCall
  \/ AddUsageCall
  \/ AppendScratchpadCall
  \/ PersistTaskStringifyStep
  \/ PersistTaskWrittenStep
  \/ RestartStore

SpecStore == StoreInit /\ [][StoreNext]_vars

\* -- the queue of several tasks: tasks are created, paused, resumed,
\* cancelled and annotated
QueueNext ==
  \/ CreateTaskCall
  \/ TaskAction
  \/ AddUsageCall
  \/ PersistTaskStringifyStep
  \/ PersistTaskWrittenStep

SpecQueue == StoreInit /\ [][QueueNext]_vars

\* -- orchestrate(task) on a task that create_task has created
OrchestrateBeginStep ==
  OrchestrateBegin /\ UNCHANGED <<coreVars, auxVars, storeVars, loadVars, toolVars>>

PlanTaskReturnsStep ==
  PlanTaskReturns /\ UNCHANGED <<coreVars, auxVars, storeVars, loadVars, toolVars>>

ExecutePlanGroupStep ==
  ExecutePlanGroup /\ UNCHANGED <<coreVars, auxVars, storeVars, loadVars, toolVars>>

ExecutePlanGroupSettledStep ==
  /\ ExecutePlanGroupSettled
  /\ UNCHANGED <<coreVars, auxVars, storeVars, loadVars, toolVars>>

ExecutePlanSequentialStep ==
  /\ ExecutePlanSequential
  /\ UNCHANGED <<coreVars, auxVars, storeVars, loadVars, toolVars>>

ExecutePlanSubtaskSettledStep ==
  /\ ExecutePlanSubtaskSettled
  /\ UNCHANGED <<coreVars, auxVars, storeVars, loadVars, toolVars>>

SynthesizeResultsReturnsStep ==
  /\ SynthesizeResultsReturns
  /\ UNCHANGED <<coreVars, auxVars, storeVars, loadVars, toolVars>>

SubtaskStep(Op(_)) ==
  \E s \in SubtaskIds :
    /\ Op(s)
    /\ UNCHANGED <<plan, parent, orch>>
    /\ UNCHANGED <<coreVars, auxVars, storeVars, loadVars, toolVars>>

SubtaskThrowsStep == SubtaskStep(SubtaskThrows)

SubtaskCreatedStep == SubtaskStep(SubtaskCreated)

SubtaskLoopStep == SubtaskStep(SubtaskLoop)

SubtaskResponseStep == SubtaskStep(SubtaskResponse)

SubtaskToolStep == SubtaskStep(SubtaskTool)

SubtaskApprovalStep == SubtaskStep(SubtaskApproval)

SubtaskFinalizedStep == SubtaskStep(SubtaskFinalized)

OrchInit == OrchStart /\ KernelRest /\ StoreStart /\ LoadRest /\ ToolRest

OrchNext ==
  \/ OrchestrateBeginStep
  \/ PlanTaskReturnsStep
  \/ ExecutePlanGroupStep
  \/ ExecutePlanGroupSettledStep
  \/ ExecutePlanSequentialStep
  \/ ExecutePlanSubtaskSettledStep
  \/ SynthesizeResultsReturnsStep
  \/ SubtaskThrowsStep
  \/ SubtaskCreatedStep
  \/ SubtaskLoopStep
  \/ SubtaskResponseStep
  \/ SubtaskToolStep
  \/ SubtaskApprovalStep
  \/ SubtaskFinalizedStep

SpecOrchestrator == OrchInit /\ [][OrchNext]_vars

\* -- initApprovalQueue at process start
LoadTickStep ==
  LoadTick /\ UNCHANGED <<coreVars, auxVars, storeVars, orchVars, toolVars>>

InitApprovalQueueReadStep ==
  /\ InitApprovalQueueRead
  /\ UNCHANGED <<coreVars, auxVars, storeVars, orchVars, toolVars>>

InitApprovalQueuePersistedStep ==
  /\ InitApprovalQueuePersisted
  /\ UNCHANGED <<coreVars, auxVars, storeVars, orchVars, toolVars>>

LoadInit == LoadStart /\ KernelRest /\ StoreStart /\ OrchStart /\ ToolRest

LoadNext ==
  \/ LoadTickStep
  \/ InitApprovalQueueReadStep
  \/ InitApprovalQueuePersistedStep

SpecApprovalLoad == LoadInit /\ [][LoadNext]_vars

\* -- executeTool as the workers call it, one call at a time
ExecuteToolBeginStep ==
  \E call \in ToolCalls :
    /\ ExecuteToolBegin(call)
    /\ UNCHANGED <<coreVars, auxVars, storeVars, orchVars, loadVars>>

ExecDoneStep ==
  ExecDone /\ UNCHANGED <<coreVars, auxVars, storeVars, orchVars, loadVars>>

DnsResolvedStep ==
  DnsResolved /\ UNCHANGED <<coreVars, auxVars, storeVars, orchVars, loadVars>>

FetchDoneStep ==
  FetchDone /\ UNCHANGED <<coreVars, auxVars, storeVars, orchVars, loadVars>>

AuditWrittenStep ==
  AuditWritten /\ UNCHANGED <<coreVars, auxVars, storeVars, orchVars, loadVars>>

ToolInit == ToolStart /\ KernelRest /\ StoreStart /\ OrchStart /\ LoadRest

ToolNext ==
  \/ ExecuteToolBeginStep
  \/ ExecDoneStep
  \/ DnsResolvedStep
  \/ FetchDoneStep
  \/ AuditWrittenStep

SpecTools == ToolInit /\ [][ToolNext]_vars

\* -- safePath on every path of the bounded set
SafePathCallStep ==
  SafePathCall /\ UNCHANGED <<extVars, coreVars, storeVars, orchVars, loadVars, toolVars, urlVars, rateVars, routeVars, sessVars>>

SubsystemsRest ==
  /\ TaskRest /\ ApprovalStart /\ CostRest /\ SettingsStart /\ WorkerStart
  /\ StoreStart /\ OrchStart /\ LoadRest /\ ToolRest /\ ExtRest

PathInit == PathStart /\ UrlRest /\ RateRest /\ RouteRest /\ SessRest /\ SubsystemsRest

SpecSafePath == PathInit /\ [][SafePathCallStep]_vars

\* -- validateURL on every URL of the bounded set
ValidateURLBeginStep ==
  ValidateURLBegin /\ UNCHANGED <<extVars, coreVars, storeVars, orchVars, loadVars, toolVars, pathVars, rateVars, routeVars, sessVars>>

ValidateURLResolvedStep ==
  ValidateURLResolved /\ UNCHANGED <<extVars, coreVars, storeVars, orchVars, loadVars, toolVars, pathVars, rateVars, routeVars, sessVars>>

UrlInit == UrlStart /\ PathRest /\ RateRest /\ RouteRest /\ SessRest /\ SubsystemsRest

UrlNext == ValidateURLBeginStep \/ ValidateURLResolvedStep

SpecValidateURL == UrlInit /\ [][UrlNext]_vars

\* -- the rate limiter under requests of two keys
CheckRateLimitCallStep ==
  CheckRateLimitCall /\ UNCHANGED <<extVars, coreVars, storeVars, orchVars, loadVars, toolVars, pathVars, urlVars, routeVars, sessVars>>

RateTickStep ==
  RateTick /\ UNCHANGED <<extVars, coreVars, storeVars, orchVars, loadVars, toolVars, pathVars, urlVars, routeVars, sessVars>>

RateInit == RateStart /\ PathRest /\ UrlRest /\ RouteRest /\ SessRest /\ SubsystemsRest

RateNext == CheckRateLimitCallStep \/ RateTickStep

SpecRateLimit == RateInit /\ [][RateNext]_vars

\* -- routeSubtask on every configuration and subtask of the bounded sets
RouteSubtaskCallStep ==
  RouteSubtaskCall /\ UNCHANGED <<extVars, coreVars, storeVars, orchVars, loadVars, toolVars, pathVars, urlVars, rateVars, sessVars>>

RouteInit == RouteStart /\ PathRest /\ UrlRest /\ RateRest /\ SessRest /\ SubsystemsRest

SpecRouter == RouteInit /\ [][RouteSubtaskCallStep]_vars

\* -- one turn of the session loop, of the heartbeat or of a trigger,
\* from every thread file and budget of the bounded sets
sessFrame ==
  <<taskVars, apprVars, today, costFile, costConfig, tuCall, counted,
    setVars, workerVars, storeVars, orchVars, loadVars, toolVars,
    pathVars, urlVars, rateVars, routeVars, extVars>>

TurnBeginStep == TurnBegin /\ UNCHANGED sessFrame

TurnResolvedStep == TurnResolved /\ UNCHANGED sessFrame

TurnLoadedStep == TurnLoaded /\ UNCHANGED sessFrame

TurnResponseStep == TurnResponse /\ UNCHANGED sessFrame

ToolSettledStep == ToolSettled /\ UNCHANGED sessFrame

TurnToolsDoneStep == TurnToolsDone /\ UNCHANGED sessFrame

TurnSavedStep == TurnSaved /\ UNCHANGED sessFrame

TurnRaisesStep == TurnRaises /\ UNCHANGED sessFrame

OnHeartbeatStep == OnHeartbeat /\ UNCHANGED sessFrame

HeartbeatResponseStep == HeartbeatResponse /\ UNCHANGED sessFrame

TriggerFiredStep == TriggerFired /\ UNCHANGED sessFrame

TriggerResponseStep == TriggerResponse /\ UNCHANGED sessFrame

\* The process has made 0 or 1 calls today, under no budget or under a
\* hard stop at the cost of one call
SessInit ==
  /\ SessStart
  /\ PathRest /\ UrlRest /\ RateRest /\ RouteRest
  /\ TaskRest /\ ApprovalStart /\ SettingsStart /\ WorkerStart
  /\ StoreStart /\ OrchStart /\ LoadRest /\ ToolRest /\ ExtRest
  /\ today = StartDate
  /\ costFile = <<>>
  /\ \E n \in 0..1 : todayUsage = UsageAfter(n)
  /\ costConfig \in Budgets
  /\ tuCall = [c \in CallIds |-> IdleCall]
  /\ counted = [d \in Dates |-> [calls |-> 0, inTok |-> 0, outTok |-> 0]]

SessNext ==
  \/ TurnBeginStep
  \/ TurnResolvedStep
  \/ TurnLoadedStep
  \/ TurnResponseStep
  \/ ToolSettledStep
  \/ TurnToolsDoneStep
  \/ TurnSavedStep
  \/ TurnRaisesStep
  \/ OnHeartbeatStep
  \/ HeartbeatResponseStep
  \/ TriggerFiredStep
  \/ TriggerResponseStep

SpecSession == SessInit /\ [][SessNext]_vars

\* -- one turn of the session loop, of the heartbeat or of a trigger,
\* with the date changing before, during or after it
RolloverNext == SessNext \/ Midnight

SpecRollover == SessInit /\ [][RolloverNext]_vars


\* -- the trigger engine under creations, toggles, deletions, sources
\* that fire, webhook requests and restarts
CreateTriggerStep ==
  (\E params \in TriggerParams : CreateTrigger(params)) /\ UNCHANGED <<baseVars, logVars, thrVars, delVars>>

ToggleTriggerStep ==
  (\E id \in TriggerIds, enabled \in BOOLEAN : ToggleTrigger(id, enabled))
  /\ UNCHANGED <<baseVars, logVars, thrVars, delVars>>

DeleteTriggerStep ==
  (\E id \in TriggerIds : DeleteTrigger(id)) /\ UNCHANGED <<baseVars, logVars, thrVars, delVars>>

FileWatchEventStep ==
  (\E id \in TriggerIds : FileWatchEvent(id)) /\ UNCHANGED <<baseVars, logVars, thrVars, delVars>>

CronJobTickStep ==
  (\E id \in TriggerIds : CronJobTick(id)) /\ UNCHANGED <<baseVars, logVars, thrVars, delVars>>

PollFoundStep == (\E id \in TriggerIds : PollFound(id)) /\ UNCHANGED <<baseVars, logVars, thrVars, delVars>>

WebhookRequestStep ==
  (\E path \in RequestPaths, sig \in Signatures : WebhookRequest(path, sig))
  /\ UNCHANGED <<baseVars, logVars, thrVars, delVars>>

WebhookBodyStep == WebhookBody /\ UNCHANGED <<baseVars, logVars, thrVars, delVars>>

FireSettledStep == FireSettled /\ UNCHANGED <<baseVars, logVars, thrVars, delVars>>

InitTriggersStep == InitTriggers /\ UNCHANGED <<baseVars, logVars, thrVars, delVars>>

TrigInit ==
  /\ TrigStart /\ LogRest /\ ThrRest /\ DelRest /\ ChatRest
  /\ PathRest /\ UrlRest /\ RateRest /\ RouteRest /\ SessRest
  /\ TaskRest /\ ApprovalStart /\ CostRest /\ SettingsStart /\ WorkerStart
  /\ StoreStart /\ OrchStart /\ LoadRest /\ ToolRest

TrigNext ==
  \/ CreateTriggerStep \/ ToggleTriggerStep \/ DeleteTriggerStep
  \/ FileWatchEventStep \/ CronJobTickStep \/ PollFoundStep
  \/ WebhookRequestStep \/ WebhookBodyStep \/ FireSettledStep
  \/ InitTriggersStep

SpecTriggers == TrigInit /\ [][TrigNext]_vars

\* -- the audit log across changes of the date
InitAuditLogStep == InitAuditLog /\ UNCHANGED <<baseVars, trigVars, thrVars, delVars>>

AuditStep ==
  (\E action \in AuditActions : Audit(action)) /\ UNCHANGED <<baseVars, trigVars, thrVars, delVars>>

AuditAppendedStep == AuditAppended /\ UNCHANGED <<baseVars, trigVars, thrVars, delVars>>

LogDateChangeStep == LogDateChange /\ UNCHANGED <<baseVars, trigVars, thrVars, delVars>>

BaseRest ==
  /\ PathRest /\ UrlRest /\ RateRest /\ RouteRest /\ SessRest /\ ChatRest
  /\ TaskRest /\ ApprovalStart /\ CostRest /\ SettingsStart /\ WorkerStart
  /\ StoreStart /\ OrchStart /\ LoadRest /\ ToolRest

LogInit == LogStart /\ TrigRest /\ ThrRest /\ DelRest /\ BaseRest

LogNext ==
  InitAuditLogStep \/ AuditStep \/ AuditAppendedStep \/ LogDateChangeStep

SpecAuditLog == LogInit /\ [][LogNext]_vars

\* -- saveThread on every thread of the bounded set, with pushes between
\* the saves
SaveThreadBeginStep == SaveThreadBegin /\ UNCHANGED <<baseVars, trigVars, logVars, delVars>>

SaveThreadTrimStep == SaveThreadTrim /\ UNCHANGED <<baseVars, trigVars, logVars, delVars>>

SaveThreadWrittenStep ==
  SaveThreadWritten /\ UNCHANGED <<baseVars, trigVars, logVars, delVars>>

PushMessageStep ==
  (\E role \in {"user", "assistant"}, len \in ContentLens : PushMessage(role, len))
  /\ UNCHANGED <<baseVars, trigVars, logVars, delVars>>

ThrInit == ThrStart /\ TrigRest /\ LogRest /\ DelRest /\ BaseRest

ThrNext ==
  \/ SaveThreadBeginStep \/ SaveThreadTrimStep \/ SaveThreadWrittenStep
  \/ PushMessageStep

SpecThread == ThrInit /\ [][ThrNext]_vars

\* -- deleteTask among the mutators of the task store
DeleteTaskCall ==
  (\E id \in StoreIds : DeleteTask(id)) /\ UNCHANGED besideStore

DeleteTaskReturnsStep ==
  (\E id \in StoreIds : DeleteTaskReturns(id)) /\ UNCHANGED besideStore

\* The process is stopped and started again while no unlink is awaited
RestartQuiet == unlinking = {} /\ RestartStore

DeleteNext ==
  \/ CreateFirstTask
  \/ UpdateTaskStatusCall
  \/ AddTaskStepCall
  \/ UpdateTaskStepCall
  \/ AddUsageCall
  \/ AppendScratchpadCall
  \/ PersistTaskStringifyStep
  \/ PersistTaskWrittenStep
  \/ DeleteTaskCall
  \/ DeleteTaskReturnsStep
  \/ RestartQuiet

SpecDelete == StoreInit /\ [][DeleteNext]_vars

\* -- the chat commands of several users on the approvals map
RequestApprovalOfStep ==
  (\E userId \in Users : RequestApprovalOf(userId)) /\ UNCHANGED besideChat

ExpireApprovalStep ==
  (\E id \in ApprovalUuids : ExpireApproval(id)) /\ UNCHANGED besideChat

HandleChatCommandStep ==
  (\E userId \in Users, decision \in Decisions, typed \in TypedPrefixes :
     HandleChatCommand(userId, decision, typed))
  /\ UNCHANGED besideChat

ChatCommandReturnsStep == ChatCommandReturns /\ UNCHANGED besideChat

ChatInit ==
  /\ ChatRest /\ TrigRest /\ LogRest /\ ThrRest /\ DelRest
  /\ PathRest /\ UrlRest /\ RateRest /\ RouteRest /\ SessRest
  /\ TaskRest /\ ApprovalStart /\ CostRest /\ SettingsStart /\ WorkerStart
  /\ StoreStart /\ OrchStart /\ LoadRest /\ ToolRest

ChatNext ==
  \/ RequestApprovalOfStep \/ ExpireApprovalStep
  \/ HandleChatCommandStep \/ ChatCommandReturnsStep

SpecChat == ChatInit /\ [][ChatNext]_vars





\* ------------------------------------------------------------------
\* Claims
\* ------------------------------------------------------------------

\* C1: when initTaskQueue has completed, every task whose document said
\* running is paused in the index and on disk, every other task has the
\* status its document had, and no task is running.
C1_RunningBecomesPaused ==
  tqPc = "done" =>
    \A id \in TaskIds :
      /\ taskDisk0[id] = "running" =>
            tasks[id] = "paused" /\ taskDisk[id] = "paused"
      /\ taskDisk0[id] \in TaskStatus \ {"running"} =>
            tasks[id] = taskDisk0[id] /\ taskDisk[id] = taskDisk0[id]
      /\ tasks[id] # "running"

C1_Witness ==
  /\ tqPc = "done"
  /\ \E id \in TaskIds : taskDisk0[id] = "running" /\ tasks[id] = "paused"
  /\ \E id \in TaskIds : taskDisk0[id] = "completed" /\ tasks[id] = "completed"

\* C2: a request that was resolved after requestApproval had returned
\* its future has, when the resolveApproval call has returned, that
\* future resolved to true for approved and to false for rejected; a
\* request that expired has its future resolved to false.
C2_RoundTrip ==
  \A id \in ApprovalIds :
    reqPc[id] = "returned" /\ id \notin earlyResolved =>
      /\ rsvPc[id] = "done" /\ rsvDecision[id] = "approved" =>
            future[id] = "true"
      /\ rsvPc[id] = "done" /\ rsvDecision[id] = "rejected" =>
            future[id] = "false"
      /\ tmrPc[id] = "done" /\ approvals[id].status = "expired" =>
            future[id] = "false"

\* No callback that could still settle the future of id is left: the
\* timer has fired or was cleared and no call is suspended.
Settled(id) ==
  /\ reqPc[id] = "returned"
  /\ timer[id] \in {"fired", "cleared"}
  /\ tmrPc[id] # "persist"
  /\ rsvPc[id] # "persist"

\* C3: every future returned by requestApproval is resolved, and exactly
\* once: when nothing is left that could settle it, it is settled and its
\* resolve function was called once.
C3_FutureResolvedOnce ==
  \A id \in ApprovalIds :
    Settled(id) => future[id] \in {"true", "false"} /\ resolveCalls[id] = 1

\* C4: a request that is approved, rejected or expired is never changed
\* again (status, resolvedAt, resolvedBy), and a resolveApproval call that
\* returns null is one on an unknown or non-pending request and changes no
\* request, future or waiter.
C4_ResolutionsTerminal ==
  [][\A id \in ApprovalIds :
       /\ approvals[id].status \in Terminal => approvals'[id] = approvals[id]
       /\ id \in nullReturned' \ nullReturned =>
             /\ approvals[id].status # "pending"
             /\ UNCHANGED <<approvals, future, waiters, resolveCalls, timer>>
    ]_vars

C4_Witness ==
  \E id \in ApprovalIds :
    /\ approvals[id].status = "approved"
    /\ timer[id] = "fired"
    /\ id \in nullReturned

\* The dates of costs.json are pairwise different.
OneRecordPerDate(file) ==
  \A i, j \in 1..Len(file) : file[i].date = file[j].date => i = j

\* C10: when no trackUsage call is in flight, the accumulator holds the
\* calls added for its date (count, input and output tokens), its call
\* count is the sum of the per-model counts, and costs.json always holds
\* at most one record per date and at most 90 records.
C10_UsageTotals ==
  /\ OneRecordPerDate(costFile)
  /\ Len(costFile) <= KeepDays
  /\ (\A c \in CallIds : tuCall[c].pc \in {"idle", "done"}) =>
       LET n == counted[todayUsage.date] IN
         /\ todayUsage.callCount = n.calls
         /\ todayUsage.inputTokens = n.inTok
         /\ todayUsage.outputTokens = n.outTok
         /\ todayUsage.callCount =
              todayUsage.byModel["m1"].calls + todayUsage.byModel["m2"].calls

\* C7: after updateSettings every dangerous pair of the patch that came
\* without its confirmation token has left its setting as it was and is
\* reported in requiresConfirm, and every other leaf of the patch is
\* applied.
C7_DangerousNeedsToken ==
  LET u == lastUpdate IN
    \A kv \in FlattenForCheck(u.patch) :
      IF kv \in DangerousKeys /\ u.token # GenerateConfirmToken(kv)
      THEN /\ SettingOf(current, kv[1]) = SettingOf(u.before, kv[1])
           /\ kv \in u.requiresConfirm
      ELSE SettingOf(current, kv[1]) = kv[2]

\* The gate the autonomy level puts on a tool: every tool at low, the
\* dangerous tools at medium, none at high.
Gated(tool, autonomy) ==
  \/ autonomy = "low"
  \/ autonomy = "medium" /\ tool \in DangerousTools

\* C5: every call a worker function has passed to executeTool, in the
\* session loop as in a subtask worker, is either not gated by the
\* autonomy level or went through an approval that was resolved
\* approved; at high no approval is ever requested.
C5_AutonomyGates ==
  /\ \A e \in executeToolLog :
       Gated(e.tool, e.autonomy) =>
         e.approval # 0 /\ approvals[e.approval].status = "approved"
  /\ current.autonomyLevel = "high" =>
       \A id \in ApprovalIds : approvals[id].status = "none"

\* C6: no call whose approval is rejected or expired is among the calls
\* passed to executeTool; and a worker that is told its request was not
\* approved executes nothing in that step, appends the rejection as the
\* result of that very call and goes on with the next tool call or,
\* after the last one, with the loop that issues the next LLM call.
C6_RejectedNeverExecuted ==
  /\ [](\A e \in executeToolLog :
         e.approval # 0 =>
           approvals[e.approval].status \notin {"rejected", "expired"})
  /\ [][(/\ worker.pc = "approval"
          /\ worker' # worker
          /\ approvals[worker.approval].status \in {"rejected", "expired"})
        => /\ executeToolLog' = executeToolLog
           /\ worker'.messages =
                Append(worker.messages,
                       [tool_call_id |-> worker.tcIndex,
                        content |-> "rejected"])
           /\ worker'.path = "subtask"
           /\ IF worker.tcIndex < Len(worker.toolCalls)
              THEN worker'.pc = "tool" /\ worker'.tcIndex = worker.tcIndex + 1
              ELSE worker'.pc = "loop"
       ]_vars

\* A subtask worker whose first call was rejected has executed the
\* second call and issued its next LLM call.
C6_Witness ==
  /\ worker.path = "subtask"
  /\ worker.pc = "llm"
  /\ worker.iterations = 2
  /\ Len(worker.messages) = 2
  /\ worker.messages[1] = [tool_call_id |-> 1, content |-> "rejected"]
  /\ worker.messages[2] = [tool_call_id |-> 2, content |-> "result"]
  /\ \E id \in ApprovalIds : approvals[id].status = "rejected"
  /\ \A e \in executeToolLog : e.approval = 0

\* C8: no callLLM is issued, by any worker function, while the hard stop
\* is on and today's cost has reached the budget.
C8_HardStopBlocksCalls ==
  \A l \in callLLMLog : l.canMakeCall

\* The totals of a DailyUsage record
Totals(u) == <<u.inputTokens, u.outputTokens, u.estimatedCost, u.callCount>>

\* C9: whenever a worker function goes on with a response that carries
\* usage, trackUsage has added that usage to today's DailyUsage; and
\* while the date of the accumulator stays, none of its totals decreases.
C9_UsageTracked ==
  [][/\ \A a \in actedLog' : a.tracked
     /\ todayUsage'.date = todayUsage.date =>
          \A i \in 1..4 : Totals(todayUsage')[i] >= Totals(todayUsage)[i]
    ]_vars

\* C14: in every state of the task store a task is completed if and only
\* if its progress is 100.
C14_CompletedIffProgress100 ==
  \A id \in StoreIds :
    taskMap[id].status # "none" =>
      (taskMap[id].status = "completed" <=> taskMap[id].progress = 100)

\* C15: in every state of the task store a task's completedAt is set if
\* and only if its status is completed or failed, also after the task was
\* re-queued, paused or cancelled.
C15_CompletedAtIffTerminal ==
  \A id \in StoreIds :
    taskMap[id].status # "none" =>
      (IsSet(taskMap[id].completedAt)
         <=> taskMap[id].status \in {"completed", "failed"})

PendingTasks == {id \in StoreIds : taskMap[id].status = "pending"}

\* C16: getNextPendingTask returns nothing exactly when no task is
\* pending, and otherwise a pending task that no pending task precedes
\* by priority or, at the same priority, by creation time.
C16_NextByPriorityThenCreation ==
  LET next == GetNextPendingTask
  IN /\ next = 0 <=> PendingTasks = {}
     /\ next # 0 =>
          /\ next \in PendingTasks
          /\ \A id \in PendingTasks :
               \/ PriorityOrder(taskMap[next].priority)
                    < PriorityOrder(taskMap[id].priority)
               \/ /\ taskMap[next].priority = taskMap[id].priority
                  /\ taskMap[next].createdAt.t <= taskMap[id].createdAt.t

\* No persistTask call on the task is in flight
Returned(id) ==
  \A slot \in WriteSlots :
    persisting[slot].pc = "idle" \/ persisting[slot].task # id

\* The fields a reload is to keep
Kept(task) ==
  <<task.status, task.progress, task.steps, task.usage, task.scratchpad>>

\* C17: when the mutators called on a task have all returned, the task's
\* document is the serialised record of the map, and a restart reloads
\* the task with the same status, progress, steps, usage and scratchpad,
\* a running task as paused.
C17_DiskEqualsMemory ==
  \A id \in StoreIds :
    taskMap[id].status # "none" /\ Returned(id) =>
      /\ taskFiles[id] = Stringify(taskMap[id])
      /\ Kept(Reloaded(taskFiles)[id]) =
           Kept(IF taskMap[id].status = "running"
                THEN [taskMap[id] EXCEPT !.status = "paused"]
                ELSE taskMap[id])

\* C11 (as stated): once orchestrate has ended on a plan with subtasks,
\* the parent's progress is 100 if and only if all subtasks have a
\* terminal status.
SubtaskTerminal(s) == subs[s].status \in {"completed", "failed"}

C11_Now ==
  /\ \A s \in SubtaskIds : subs[s].started <= 1
  /\ \A s \in SubtaskIds \ DOMAIN plan : subs[s].started = 0
  /\ orch.pc = "done" =>
       \A s \in DOMAIN plan : subs[s].started = 1 /\ SubtaskTerminal(s)
  /\ orch.pc # "done" => parent.progress <= PlanProgressCap
  /\ parent.progress = 100 <=> orch.pc = "done"
  /\ orch.pc = "done" <=> parent.status = "completed"

C12_ThrownWorkerTaskFailed ==
  \A s \in SubtaskIds :
    subs[s].pc = "rejected" =>
      /\ subs[s].child.status = "failed"
      /\ subs[s].child.error

\* C13: groups run strictly in label order: a subtask is started only
\* when every subtask of every earlier-labelled group has settled; the
\* subtasks of one group are all started in the same step, none waiting
\* for another; ungrouped subtasks are started one at a time, in plan
\* order, after all groups have settled.
Grouped(s) == plan[s] # NoGroup

\* Subtask t is to run before subtask s
Earlier(t, s) ==
  \/ Grouped(t) /\ Grouped(s) /\ LabelRank[plan[t]] < LabelRank[plan[s]]
  \/ Grouped(t) /\ ~Grouped(s)
  \/ ~Grouped(t) /\ ~Grouped(s) /\ t < s

PendingApprovals == {id \in ApprovalIds : approvals[id].status = "pending"}

C19_StaleApprovalsExpiredAtStartup ==
  aqPc = "done" =>
    \A f \in FileIds :
      LET req == approvalDisk0[f]
      IN /\ (req.kind = "json" /\ req.status = "pending"
               /\ req.expiresAt < loadClock) =>
              /\ loadedApprovals[f].status = "expired"
              /\ approvalFiles[f].status = "expired"
         /\ (req.kind = "json" /\ req.status # "pending") =>
              /\ loadedApprovals[f].status = req.status
              /\ approvalFiles[f].status = req.status

\* C20: a run_shell or web_fetch call that a guard has blocked has spawned
\* no process and sent no HTTP request (the lookup validateURL makes is
\* not counted), and when executeTool has finished with it, it has
\* returned (not raised) a result with isError whose content begins with
\* "Error:" and has written an audit entry with blocked true.
C20_BlockedCallReportedNoEffect ==
  toolCall.blocked =>
    /\ effects \cap {"spawn", "http"} = {}
    /\ toolCall.pc = "idle" =>
         /\ toolResult = ToolReturned(toolCall.runs, TRUE, "Error:")
         /\ Len(auditLog) = toolCall.logged + 1
         /\ auditLog[Len(auditLog)] =
              [tool |-> toolCall.call.name, blocked |-> "true"]

\* C21: when executeTool has finished with a call it has returned, not
\* raised, one result carrying the call's id; for an unknown tool this is
\* an error result, no handler has run and no event was emitted; for a
\* known tool exactly one tool_called event, then one tool_result event
\* and one audit entry have been written, on success and failure alike.
C21_OneResultOneEventOneEntry ==
  (toolCall.pc = "idle" /\ toolCall.runs > 0) =>
    /\ toolResult.kind = "returned"
    /\ toolResult.toolCallId = toolCall.runs
    /\ IF toolCall.call.name \notin {"run_shell", "web_fetch"}
       THEN /\ toolResult.isError
            /\ effects = {}
            /\ Len(toolEvents) = toolCall.emitted
       ELSE /\ SubSeq(toolEvents, toolCall.emitted + 1, Len(toolEvents)) =
                 <<ToolCalled(toolCall.call.name),
                   ToolResultEvent(toolCall.call.name, toolResult.isError)>>
            /\ Len(auditLog) = toolCall.logged + 1
            /\ auditLog[Len(auditLog)].tool = toolCall.call.name

\* C22: safePath either raises SecurityError or returns a path whose
\* normalized absolute form is the workspace root or begins with the
\* workspace root followed by the separator; a path with a NUL byte
\* always raises.
C22_SafePathStaysInWorkspace ==
  pathCall.made =>
    /\ pathResult.kind \in {"SecurityError", "path"}
    /\ pathCall.userPath.nul => pathResult.kind = "SecurityError"
    /\ pathResult.kind = "path" =>
         LET form == Normalize(pathResult.segs)
         IN \/ form = Workspace
            \/ /\ Len(form) > Len(Workspace)
               /\ \A i \in 1..Len(Workspace) : form[i] = Workspace[i]

\* A relative path that leaves the workspace and comes back is returned
\* as the path inside it
C22_Witness ==
  /\ pathCall.made
  /\ pathCall.userPath = [absolute |-> FALSE, segs |-> <<"..", "w", "a">>,
                          nul |-> FALSE]
  /\ pathResult = [kind |-> "path", segs |-> <<"home", "w", "a">>]

\* The blocked ranges as the claim lists them, by octets
InBlockedCidr(o) ==
  \/ o[1] \in {0, 10, 127}
  \/ o[1] = 100 /\ o[2] \in 64..127
  \/ o[1] = 169 /\ o[2] = 254
  \/ o[1] = 172 /\ o[2] \in 16..31
  \/ o[1] = 192 /\ o[2] = 0 /\ o[3] = 0
  \/ o[1] = 192 /\ o[2] = 168
  \/ o[1] = 198 /\ o[2] \in 18..19

\* C23: validateURL raises SecurityError for a scheme other than http and
\* https, for a literal IP host inside a blocked range, for the IPv6
\* loopback written as http://[::1], and for a named host one of whose
\* A records is in a blocked range; it accepts an http/https URL whose
\* host resolves only to public addresses or whose lookup fails.
C23_ValidateURLBlocksInternal ==
  urlCall.pc = "done" =>
    LET url == urlCall.rawUrl
        web == url.valid /\ url.scheme \in {"http", "https"}
        answer == urlCall.answer
        someBlocked ==
          /\ ~answer.failed
          /\ \E i \in 1..Len(answer.addresses) :
               InBlockedCidr(answer.addresses[i].octets)
    IN /\ ~web => urlResult = UrlError
       /\ (web /\ url.host.form = "ipv4" /\ InBlockedCidr(url.host.octets))
            => urlResult = UrlError
       /\ (web /\ url.host = Ipv6("[::1]")) => urlResult = UrlError
       /\ (web /\ url.host.form = "name" /\ someBlocked)
            => urlResult = UrlError
       /\ (web /\ url.host.form = "name" /\ ~someBlocked)
            => urlResult = UrlParsed

\* The calls on a key made at the instant of that key's first call, in
\* the order they were made
RECURSIVE AtFirstInstant(_, _)
AtFirstInstant(key, n) ==
  IF n = 0 THEN <<>>
  ELSE LET rest == AtFirstInstant(key, n - 1)
           call == rateCalls[n]
       IN IF /\ call.key = key
             /\ ~call.before[key].present \/ (rest # <<>> /\ rest[1].at = call.at)
          THEN Append(rest, call)
          ELSE rest

\* C24: a fresh key admits exactly cap consecutive calls made at the
\* same instant and rejects the next one; a bucket's token count stays
\* within 0..cap; a call that returns false consumes no token; a call on
\* one key never changes the bucket of another key.
C24_TokenBucket ==
  LET cap == rateConfig.maxTokens
  IN /\ \A key \in RateKeys :
          LET burst == AtFirstInstant(key, Len(rateCalls))
          IN \A j \in 1..Len(burst) : burst[j].result = (j <= cap)
     /\ \A key \in RateKeys :
          buckets[key].present =>
            /\ buckets[key].tokens >= 0
            /\ buckets[key].tokens <= cap * Token
     /\ \A n \in 1..Len(rateCalls) :
          LET call == rateCalls[n]
          IN /\ (~call.result /\ call.before[call.key].present) =>
                  call.after[call.key].tokens >= call.before[call.key].tokens
             /\ \A other \in RateKeys \ {call.key} :
                  call.after[other] = call.before[other]

\* A fresh key has been called cap + 1 times at one instant, the last
\* call was rejected, and the other key's bucket is in use
C24_Witness ==
  /\ Len(rateCalls) = MaxRateCalls
  /\ rateConfig.maxTokens = 2
  /\ \E key \in RateKeys :
       /\ Len(AtFirstInstant(key, Len(rateCalls))) = 3
       /\ ~rateCalls[Len(rateCalls)].result
       /\ rateCalls[Len(rateCalls)].key = key
       /\ \E other \in RateKeys \ {key} : buckets[other].present

\* C25: routeSubtask follows the priority order: requiresPrivacy yields
\* the local route if one is configured and the balanced route
\* otherwise; else a remaining budget below 0.10 yields the cheapest
\* available route; else the requested tier is used; else the tier is
\* chosen by complexity (1-3 fast, 4-7 balanced, 8-10 reasoning).
C25_RoutePriorityOrder ==
  routeCall.made =>
    LET rs == InitModelRouter(routeCall.config)
        subtask == routeCall.subtask
        budget == routeCall.budgetRemaining
        byComplexity ==
          CASE subtask.complexity \in 1..3 -> "fast"
            [] subtask.complexity \in 4..7 -> "balanced"
            [] subtask.complexity \in 8..10 -> "reasoning"
    IN IF subtask.requiresPrivacy
       THEN routeResult.tier =
              IF HasTier(rs, "local") THEN "local" ELSE "balanced"
       ELSE IF budget # BudgetUndefined /\ budget < 10
       THEN \A i \in 1..Len(rs) : routeResult.cost <= rs[i].cost
       ELSE IF HasTier(rs, subtask.modelTier)
       THEN routeResult.tier = subtask.modelTier
       ELSE HasTier(rs, byComplexity) => routeResult.tier = byComplexity

\* A turn of processMessage on a text that is no chat command has
\* returned
LoopTurnReturned ==
  /\ turn.pc = "done"
  /\ turn.mode = "message"
  /\ Command(Trimmed(turn.text)) = "none"
  /\ turnReply # "raised"

\* C26 as stated: a turn of the session loop issues at most maxToolCalls
\* LLM calls and ends with the text of the first response without tool
\* calls or, at the cap, with the max-iterations notice; in both cases
\* the thread with everything appended in the turn is persisted before
\* the reply is returned.
C26_TurnEndsWithTextOrNotice ==
  LoopTurnReturned =>
    /\ turn.llmCalls <= MaxToolCallsPerMessage
    /\ \/ turnReply = "text" /\ turn.response.n = 0
       \/ /\ turnReply = MaxIterationsNotice
          /\ turn.llmCalls = MaxToolCallsPerMessage
    /\ turn.saves = 1
    /\ threadFile.tail = turn.added

\* C26, amended: the turn issues at most maxToolCalls LLM calls and ends
\* with the budget-exceeded message before the loop (nothing called,
\* loaded or saved), or with the text of the first response without
\* tool calls, the max-iterations notice at the cap, or the budget-limit
\* notice of the loop; in these three cases the reply is the last turn
\* of the thread and the thread is saved once, with everything appended
\* in the turn as long as that is at most 80 messages.
C26_TurnEndsPersisted ==
  LoopTurnReturned =>
    /\ turn.llmCalls <= MaxToolCallsPerMessage
    /\ \/ /\ turnReply = BudgetExceeded
          /\ turn.llmCalls = 0 /\ turn.loads = 0 /\ turn.saves = 0
       \/ /\ \/ turnReply = "text" /\ turn.response.n = 0
             \/ /\ turnReply = MaxIterationsNotice
                /\ turn.llmCalls = MaxToolCallsPerMessage
             \/ /\ turnReply = BudgetLimit
                /\ turn.llmCalls < MaxToolCallsPerMessage
          /\ turn.saves = 1
          /\ turn.added[Len(turn.added)] = AssistantText(turnReply)
          /\ Len(turn.added) <= TrimKeep => threadFile.tail = turn.added

\* The cap was reached on a thread that saveThread had to trim, and the
\* file holds all that the turn appended
C26_Witness ==
  /\ LoopTurnReturned
  /\ turnReply = MaxIterationsNotice
  /\ turn.llmCalls = MaxToolCallsPerMessage
  /\ threadFile.count = TrimKeep
  /\ threadFile.tail = turn.added
  /\ Len(turn.added) > MaxToolCallsPerMessage + 2

\* C27: within one LLM turn the tool results are appended in the order
\* of the tool calls of the response, one per call id, whatever order
\* the tools finish in, and all of them before the next LLM call.
C27_ToolResultsInCallOrder ==
  \A p \in 1..Len(turn.added) :
    turn.added[p].content = "tool_use" =>
      LET iteration == turn.added[p].id[1]
          n == turn.added[p].id[2]
      IN IF turn.pc = "tools" /\ iteration = turn.iterations
         THEN Len(turn.added) = p
         ELSE /\ Len(turn.added) >= p + n
              /\ \A i \in 1..n : turn.added[p + i] = ToolTurn(<<iteration, i>>)
              /\ Len(turn.added) > p + n =>
                   turn.added[p + n + 1].role = "assistant"

\* The second call finished first, its result is second in the thread,
\* and the next LLM call has been issued
C27_Witness ==
  /\ turn.pc = "llm"
  /\ turn.llmCalls = 2
  /\ turn.finished = <<2, 1>>
  /\ turn.added = <<UserText, AssistantToolUse(1, 2), ToolTurn(<<1, 1>>),
                    ToolTurn(<<1, 2>>)>>

\* The command forms of the chat-command table, in either case
IsChatCommand(text) ==
  \/ text.word \in {"/approve", "/reject"} /\ text.arg # ""
  \/ text.word \in {"/pending", "/tasks", "/cost", "/costs"} /\ text.arg = ""

\* C28: a message matching a chat command, in either case, returns
\* early: no LLM call, the thread neither loaded nor saved, DailyUsage
\* unchanged, and the command is served also under the budget hard stop
\* (a failing write of the approval makes the turn throw instead).
C28_ChatCommandBypassesLoop ==
  (turn.pc = "done" /\ turn.mode = "message" /\ IsChatCommand(turn.text)) =>
    /\ turn.llmCalls = 0
    /\ turn.loads = 0
    /\ turn.saves = 0
    /\ todayUsage = turn.usageBefore
    /\ turnReply \in CommandReplies \cup {"raised"}

\* /COST in upper case is served while the budget hard stop is active
C28_Witness ==
  /\ turn.pc = "done"
  /\ turn.text = [word |-> "/cost", arg |-> "", upper |-> TRUE]
  /\ ~CanMakeCall
  /\ turnReply = "Today:"
  /\ turn.llmCalls = 0

IsUnchecked(line) == line.box = " "

\* The descriptions of the unchecked items of the checklist of the tick
UncheckedItems ==
  LET lines == SelectSeq(IF checklist.missing THEN DefaultChecklist
                         ELSE checklist.lines, IsUnchecked)
  IN [i \in 1..Len(lines) |-> lines[i].text]

\* The tick has published one event and it carries the unchecked items
PublishedUnchecked ==
  /\ Len(published) = turn.publishedBefore + 1
  /\ LET carried == published[Len(published)]
     IN [i \in 1..Len(carried) |-> carried[i].description] = UncheckedItems

NothingDone ==
  /\ Len(published) = turn.publishedBefore
  /\ turn.llmCalls = 0
  /\ Len(outbox) = turn.sentBefore

\* C29 as stated: a tick without unchecked items publishes no event,
\* makes no LLM call and sends nothing; a tick with unchecked items
\* publishes one event carrying exactly them; when the model's reply is
\* literally HEARTBEAT_OK no message is sent, otherwise exactly one.
C29_HeartbeatSendsUnlessOk ==
  (turn.pc = "done" /\ turn.mode = "heartbeat") =>
    IF UncheckedItems = <<>> THEN NothingDone
    ELSE /\ PublishedUnchecked
         /\ turn.response # NoResponse =>
              Len(outbox) = turn.sentBefore +
                (IF turn.response.content = "HEARTBEAT_OK" THEN 0 ELSE 1)

\* C29, amended: ...; when the model's reply, trimmed of surrounding
\* whitespace, is HEARTBEAT_OK, or when it is empty, no message is sent,
\* otherwise exactly one.
C29_HeartbeatSendsUnlessOkOrEmpty ==
  (turn.pc = "done" /\ turn.mode = "heartbeat") =>
    IF UncheckedItems = <<>> THEN NothingDone
    ELSE /\ PublishedUnchecked
         /\ turn.response # NoResponse =>
              Len(outbox) = turn.sentBefore +
                (IF turn.response.content \in
                      {"HEARTBEAT_OK", " HEARTBEAT_OK ", ""}
                 THEN 0 ELSE 1)

\* A checklist with an unchecked and a checked item: the event carries
\* the unchecked one, the model replies with text, one message is sent
C29_Witness ==
  /\ turn.pc = "done"
  /\ turn.mode = "heartbeat"
  /\ ~checklist.missing
  /\ Len(checklist.lines) = 2
  /\ checklist.lines[1].box = " "
  /\ checklist.lines[2].box = "x"
  /\ Len(published[Len(published)]) = 1
  /\ turn.response.content = "text"
  /\ outbox = <<"text">>

\* C30: heartbeat mode and trigger mode run the tool-use loop of a
\* normal turn: when the response to the synthetic user turn has tool
\* calls, they are executed, their results fed back and the LLM called
\* again before the final reply.
C30_HeartbeatTriggerRunToolLoop ==
  (/\ turn.pc = "done"
   /\ turn.mode \in {"heartbeat", "trigger"}
   /\ turn.first.n > 0) =>
    /\ \A i \in 1..turn.first.n : <<1, i>> \in turn.executed
    /\ turn.llmCalls >= 2

\* The enabled webhook triggers of the map whose configured path is path
Owners(path) ==
  {id \in TriggerIds :
     /\ InMap(id)
     /\ triggerObjs[id].type = "webhook"
     /\ triggerObjs[id].enabled
     /\ HookPath(id, triggerObjs[id]) = path}

\* C31: the webhook server routes by configured path for every enabled
\* webhook trigger, whenever it was created: a request to the path of
\* an enabled webhook trigger reaches that trigger, which fires unless
\* its secret is missing or wrong (then 401 and no fire); a request to
\* any other path is answered 404 and fires nothing.
C31_WebhookRoutesByPath ==
  [][/\ \A path \in RequestPaths, sig \in Signatures :
          WebhookRequest(path, sig) =>
            IF Owners(path) = {}
            THEN request'.pc = "idle" /\ request'.status = 404
            ELSE request'.pc = "body" /\ request'.trigger \in Owners(path)
      /\ WebhookBody =>
           LET def == triggerObjs[request.trigger]
           IN  IF def.secret # "" /\ request.sig # def.secret
               THEN request'.status = 401 /\ triggerObjs' = triggerObjs
               ELSE triggerObjs'[request.trigger].triggerCount =
                      def.triggerCount + 1]_vars

\* C37: a trigger that was disabled with toggleTrigger or removed with
\* deleteTrigger does not fire until it is enabled again: its counter
\* is not incremented and no trigger_fired event is emitted for it,
\* whatever its type.
C37_DisabledTriggerNeverFires ==
  [][\A id \in TriggerIds :
       (\/ triggerObjs'[id].triggerCount > triggerObjs[id].triggerCount
        \/ emitted'[id] > emitted[id])
       => InMap(id) /\ triggerObjs[id].enabled]_vars

\* C32: every audit entry is appended to the file named after the
\* calendar date of its own timestamp, also when the date changes
\* while the process runs, and the lines already in a file are never
\* rewritten.
C32_AuditEntryInFileOfItsDate ==
  [][\A d \in Dates :
       /\ Len(AuditOf(d)') >= Len(AuditOf(d))
       /\ SubSeq(AuditOf(d)', 1, Len(AuditOf(d))) = AuditOf(d)
       /\ \A i \in 1..Len(AuditOf(d)') : EntryDate(AuditOf(d)'[i]) = d]_vars

C38_TurnAddsOnlyItsMessages ==
  (LoopTurnReturned /\ turn.saves = 1) =>
    LET unshifted == IF turn.summary THEN 1 ELSE 0
        loaded == turn.old - unshifted
    IN  /\ threadFile.systems <= turn.systems - unshifted
        /\ loaded + Len(turn.added) <= TrimAbove =>
             threadFile.count = loaded + Len(turn.added)

TerminalStatus == {"completed", "failed", "cancelled"}

\* C34: once a task's status is completed, failed or cancelled, no
\* operation changes it again: neither task_action or the admin task
\* action, nor the updates of an orchestration still in flight for the
\* task.
C34_TerminalStatusFinal ==
  [][\A id \in StoreIds :
       (taskMap[id].status \in TerminalStatus /\ taskMap'[id].status # "none")
       => taskMap'[id].status = taskMap[id].status]_vars

\* C35: after deleteTask(id) has returned true the task stays deleted:
\* its document is absent from disk and it is not in the tasks map,
\* also after a restart and also when a mutator of the task was
\* suspended in persistTask while the delete ran.
C35_DeletedStaysDeleted ==
  \A id \in deleteReturned :
    /\ taskFiles[id] = NoTask
    /\ taskMap[id] = NoTask

\* The cost accumulated on the current calendar date
CostOfToday == IF todayUsage.date = today THEN todayUsage.estimatedCost ELSE 0

\* processMessage, processHeartbeat or processTrigger has returned at
\* its budget check
RefusedForBudget ==
  /\ turn.pc = "done"
  /\ turn.llmCalls = 0
  /\ \/ turn.mode = "message" /\ turnReply = BudgetExceeded
     \/ turn.mode \in {"heartbeat", "trigger"} /\ turnReply = "null"

\* C36: the hard stop depends only on the cost accumulated on the
\* current calendar date: a message, heartbeat or trigger is refused
\* for the budget only when the hard stop is on and the cost of the
\* current date has reached the daily budget, so that a refusal caused
\* by the cost of the day before ends when the date changes.
C36_HardStopFollowsDate ==
  [][(turn.pc = "idle" /\ RefusedForBudget') =>
       /\ costConfig.hardStop
       /\ costConfig.dailyBudget > 0
       /\ CostOfToday >= costConfig.dailyBudget]_vars

\* C39: with several trackUsage calls in flight while the date changes,
\* every call is counted in exactly one day's record: at every moment
\* the accumulator holds all the calls that were added for its date,
\* and the reset to an empty day discards none of them.
C39_RolloverKeepsCounted ==
  LET n == counted[todayUsage.date]
  IN  /\ todayUsage.callCount = n.calls
      /\ todayUsage.inputTokens = n.inTok
      /\ todayUsage.outputTokens = n.outTok

\* The requests a step changes
ChangedApprovals ==
  {id \in ApprovalUuids : userApprovals'[id] # userApprovals[id]}

\* C40: a /approve or /reject command of user U changes at most one
\* approval, and only one that is pending, addressed to U and whose id
\* starts with the typed prefix; it becomes approved or rejected with U
\* as resolver.  Requests of other users are never changed, and when
\* nothing matches no request changes.
C40_ChatCommandResolvesOwn ==
  [][\A userId \in Users, decision \in Decisions, typed \in TypedPrefixes :
       HandleChatCommand(userId, decision, typed) =>
         /\ Cardinality(ChangedApprovals) <= 1
         /\ \A id \in ChangedApprovals :
              /\ userApprovals[id].status = "pending"
              /\ userApprovals[id].userId = userId
              /\ StartsWith(id, ToLowerCase(typed))
              /\ userApprovals'[id] =
                   [userApprovals[id] EXCEPT !.status = decision,
                                             !.resolvedBy = userId]
         /\ (\A id \in ApprovalUuids :
               ~ (/\ userApprovals[id].status = "pending"
                  /\ userApprovals[id].userId = userId
                  /\ StartsWith(id, ToLowerCase(typed))))
            => ChangedApprovals = {}]_vars

\* A command of a user has resolved one request while a request of the
\* other user and a second request of the same user, both with the same
\* prefix, stay pending
C40_Witness ==
  /\ chatCommand.match # NoMatch
  /\ chatCommand.reply \in Decisions
  /\ LET resolved == userApprovals[chatCommand.match]
     IN  /\ resolved.status = chatCommand.reply
         /\ resolved.resolvedBy = resolved.userId
         /\ \E o, p \in ApprovalUuids :
              /\ o # p
              /\ o[1] = chatCommand.match[1] /\ p[1] = chatCommand.match[1]
              /\ userApprovals[o].status = "pending"
              /\ userApprovals[o].userId # resolved.userId
              /\ userApprovals[p].status = "pending"
              /\ userApprovals[p].userId = resolved.userId

====
